---- MODULE Spec2Model ----
(***************************************************************************)
(* Zero-Config Personal Finance Dashboard: the ingestion pipeline          *)
(* (excelParser: parseExcelFile, parseSheetData, mapColumns, parseRow,     *)
(* parseDate) and the application state machine of app.js.                 *)
(*                                                                         *)
(* Representation.  A JavaScript string is a sequence of one-character     *)
(* strings, so that includes(), toLowerCase(), trim(), replace() and       *)
(* parseFloat() are computed character by character.  A number is an       *)
(* integer count of hundredths (125.50 is 12550).  A Date is its instant,  *)
(* in hours since 1970-01-01T00:00Z; tz is the local offset from UTC, in   *)
(* hours, of the browser the page runs in.                                 *)
(***************************************************************************)
EXTENDS Integers, Sequences, FiniteSets, TLC

VARIABLES
    tz,            \* local time zone offset (hours east of UTC)
    pc,            \* position inside reader.onload of parseExcelFile
    rawData,       \* the decoded first sheet: a sequence of rows
    headers,       \* parseSheetData: the lower-cased, trimmed header row
    columnMap,     \* mapColumns: the map under construction
    index,         \* mapColumns: forEach index (0-based)
    i,             \* parseSheetData: loop index (0-based row number)
    transactions,  \* parseSheetData: the records pushed so far
    outcome,       \* the settled promise of parseExcelFile
    state,         \* app.js: the application state object
    localStorage,  \* the item stored under STORAGE_KEY, or null
    view,          \* which section is shown: "none", "upload" or "dashboard"
    controls,      \* the filter bar in the document: its values, or null
    searchTimeout, \* a debounce timer of the current filter bar is pending
    orphans,       \* pending debounce timers of filter bars rendered earlier
    reads,         \* the files whose handleFile call awaits parseExcelFile
    toast,         \* the notification shown last
    source,        \* where the record set came from last (history)
    events,        \* number of user events so far
    results,       \* what parseExcelFile settles with, for each file the user has
    records,       \* the record list a function of calculations.js is called with
    criteria,      \* the filters applyFilters is called with
    report,        \* the function called and the value it returned
    upload,        \* one call of handleFile: its position and the callbacks it made
    table          \* TransactionTable.js: its module variables and what it shows

ingestVars == <<pc, rawData, headers, columnMap, index, i, transactions, outcome>>

appVars ==
    <<state, localStorage, view, controls, searchTimeout, orphans, reads, toast,
      source, events, results>>

calcVars == <<records, criteria, report>>

pageVars == <<upload, table>>

vars == <<tz, ingestVars, appVars, calcVars, pageVars>>

----------------------------------------------------------------------------
\* Op applied to the value of x, which is evaluated once
Apply(Op(_), x) == CHOOSE r \in {Op(v) : v \in {x}} : TRUE

----------------------------------------------------------------------------
(* Strings *)

UpperChars == <<"A","B","C","D","E","F","G","H","I","J","K","L","M","N","O","P","Q","R","S","T","U","V","W","X","Y","Z">>
LowerChars == <<"a","b","c","d","e","f","g","h","i","j","k","l","m","n","o","p","q","r","s","t","u","v","w","x","y","z">>
Digits == <<"0","1","2","3","4","5","6","7","8","9">>

IsDigit(c) == \E k \in 1..Len(Digits) : Digits[k] = c

DigitValue(c) == CHOOSE v \in 0..9 : Digits[v + 1] = c

\* the lower-case letter of each upper-case letter
lowerOf == [c \in {UpperChars[k] : k \in 1..Len(UpperChars)} |->
               LowerChars[CHOOSE k \in 1..Len(UpperChars) : UpperChars[k] = c]]

lowerChar(c) == IF c \in DOMAIN lowerOf THEN lowerOf[c] ELSE c

\* "U+0130" is the code unit of the capital I with dot above, the one letter
\* whose lower case is two code units: "i" and the combining dot, "U+0307"
lowerUnits(c) == IF c = "U+0130" THEN <<"i", "U+0307">> ELSE <<lowerChar(c)>>

RECURSIVE concatLower(_)
concatLower(s) == IF s = <<>> THEN <<>> ELSE lowerUnits(Head(s)) \o concatLower(Tail(s))

toLowerCase(s) ==
    IF \A k \in 1..Len(s) : s[k] # "U+0130"
    THEN [k \in 1..Len(s) |-> lowerChar(s[k])]
    ELSE concatLower(s)

\* String.prototype.includes
includes(s, sub) ==
    \/ sub = <<>>
    \/ \E k \in 0..(Len(s) - Len(sub)) :
          s[k + 1] = sub[1] /\ SubSeq(s, k + 1, k + Len(sub)) = sub

IsSpace(c) == c = " "

\* String.prototype.trim
trim(s) ==
    IF \A k \in 1..Len(s) : IsSpace(s[k]) THEN <<>>
    ELSE LET first == CHOOSE a \in 1..Len(s) :
                         /\ ~IsSpace(s[a])
                         /\ \A b \in 1..(a - 1) : IsSpace(s[b])
             last == CHOOSE a \in 1..Len(s) :
                         /\ ~IsSpace(s[a])
                         /\ \A b \in (a + 1)..Len(s) : IsSpace(s[b])
         IN SubSeq(s, first, last)

RECURSIVE natChars(_)
natChars(n) ==
    IF n < 10 THEN <<Digits[n + 1]>>
    ELSE natChars(n \div 10) \o <<Digits[(n % 10) + 1]>>

Abs(n) == IF n < 0 THEN -n ELSE n

\* Number.prototype.toString of a number held in hundredths
numberToString(n) ==
    LET a == Abs(n)
        frac == a % 100
    IN (IF n < 0 THEN <<"-">> ELSE <<>>)
       \o natChars(a \div 100)
       \o (IF frac = 0 THEN <<>>
           ELSE IF frac % 10 = 0 THEN <<".">> \o natChars(frac \div 10)
           ELSE <<".", Digits[(frac \div 10) + 1], Digits[(frac % 10) + 1]>>)

----------------------------------------------------------------------------
(* Cell values of the decoded sheet: text, number, native date, or absent  *)
(* (a hole of the row array, read as undefined).                           *)

Text(s) == [k |-> "string", s |-> s, n |-> 0]
Num(n) == [k |-> "number", s |-> <<>>, n |-> n]
DateValue(t) == [k |-> "Date", s |-> <<>>, n |-> t]
undefined == [k |-> "undefined", s |-> <<>>, n |-> 0]

\* row[idx] of a JavaScript array: undefined past the end
At(row, idx) == IF idx + 1 \in DOMAIN row THEN row[idx + 1] ELSE undefined

\* String(v); a native date is never stringified on the paths modelled
String(v) ==
    CASE v.k = "string" -> v.s
      [] v.k = "number" -> numberToString(v.n)
      [] v.k = "undefined" -> <<"u","n","d","e","f","i","n","e","d">>

\* v || '' followed by String(): a falsy cell (absent, '', 0) gives ''
StringOrEmpty(v) ==
    IF v.k = "undefined" \/ (v.k = "number" /\ v.n = 0) THEN <<>> ELSE String(v)

----------------------------------------------------------------------------
(* Column Mapper *)

Fields == <<"date", "description", "category", "amount", "type">>

FieldSet == {Fields[k] : k \in 1..Len(Fields)}

COLUMN_MAPPINGS ==
    [date |-> <<<<"d","a","t","e">>, <<"t","r","a","n","s","a","c","t","i","o","n"," ","d","a","t","e">>, <<"t","r","a","n","s"," ","d","a","t","e">>, <<"p","o","s","t","i","n","g"," ","d","a","t","e">>>>,
     description |-> <<<<"d","e","s","c","r","i","p","t","i","o","n">>, <<"d","e","s","c">>, <<"m","e","m","o">>, <<"n","a","r","r","a","t","i","v","e">>,
                       <<"d","e","t","a","i","l","s">>, <<"t","r","a","n","s","a","c","t","i","o","n">>>>,
     category |-> <<<<"c","a","t","e","g","o","r","y">>, <<"t","y","p","e">>, <<"t","r","a","n","s","a","c","t","i","o","n"," ","t","y","p","e">>, <<"g","r","o","u","p">>>>,
     amount |-> <<<<"a","m","o","u","n","t">>, <<"v","a","l","u","e">>, <<"s","u","m">>, <<"t","o","t","a","l">>, <<"d","e","b","i","t">>, <<"c","r","e","d","i","t">>>>,
     type |-> <<<<"i","n","c","o","m","e","/","e","x","p","e","n","s","e">>, <<"t","r","a","n","s","a","c","t","i","o","n"," ","k","i","n","d">>, <<"i","n","/","o","u","t">>, <<"d","i","r","e","c","t","i","o","n">>>>]

\* aliases.some(alias => lowerHeader.includes(alias))
someAlias(field, lowerHeader) ==
    \E a \in 1..Len(COLUMN_MAPPINGS[field]) :
        includes(lowerHeader, COLUMN_MAPPINGS[field][a])

unmapped == [f \in FieldSet |-> -1]

\* scanFields without the map[field] === -1 test: the last match wins
RECURSIVE scanFieldsLastWins(_, _, _, _)
scanFieldsLastWins(map, lowerHeader, idx, k) ==
    IF k > Len(Fields) THEN map
    ELSE LET field == Fields[k]
             next == IF someAlias(field, lowerHeader)
                     THEN [map EXCEPT ![field] = idx]
                     ELSE map
         IN Apply(LAMBDA m : scanFieldsLastWins(m, lowerHeader, idx, k + 1), next)

\* the body of the for-of loop over Object.entries(COLUMN_MAPPINGS), from the
\* k-th field on: every field is tried, there is no break after a match
RECURSIVE scanFields(_, _, _, _)
scanFields(map, lowerHeader, idx, k) ==
    IF k > Len(Fields) THEN map
    ELSE LET field == Fields[k]
             next == IF someAlias(field, lowerHeader) /\ map[field] = -1
                     THEN [map EXCEPT ![field] = idx]
                     ELSE map
         IN Apply(LAMBDA m : scanFields(m, lowerHeader, idx, k + 1), next)

\* the forEach callback
forEachHeader(map, header, idx) ==
    Apply(LAMBDA lowerHeader : scanFields(map, lowerHeader, idx, 1), toLowerCase(header))

RECURSIVE mapColumnsFrom(_, _, _)
mapColumnsFrom(map, hs, idx) ==
    IF idx >= Len(hs) THEN map
    ELSE Apply(LAMBDA m : mapColumnsFrom(m, hs, idx + 1),
               forEachHeader(map, hs[idx + 1], idx))

mapColumns(hs) == mapColumnsFrom(unmapped, hs, 0)

\* rawData[0].map(h => String(h || '').toLowerCase().trim())
headerRow(row0) == [k \in 1..Len(row0) |-> trim(toLowerCase(StringOrEmpty(row0[k])))]

----------------------------------------------------------------------------
(* Dates.  null is the empty sequence; a value v that may be null is <<v>>. *)

null == <<>>

\* days from 1970-01-01 to the civil date y-m-d (m in 1..12, any d)
daysFromCivil(y, m, d) ==
    LET yy == IF m <= 2 THEN y - 1 ELSE y
        era == yy \div 400
        yoe == yy - era * 400
        mp == IF m > 2 THEN m - 3 ELSE m + 9
        doy == (153 * mp + 2) \div 5 + d - 1
        doe == yoe * 365 + yoe \div 4 - yoe \div 100 + doy
    IN era * 146097 + doe - 719468

daysInMonth(y, m) ==
    (IF m = 12 THEN daysFromCivil(y + 1, 1, 1) ELSE daysFromCivil(y, m + 1, 1))
    - daysFromCivil(y, m, 1)

\* new Date(year, monthIndex, day): local midnight; a month index or a day
\* out of range rolls over into the following months, the result is never NaN
newDateLocal(zone, year, monthIndex, day) ==
    LET months == year * 12 + monthIndex
        first == daysFromCivil(months \div 12, (months % 12) + 1, 1)
    IN (first + day - 1) * 24 - zone

allDigits(s) == \A k \in 1..Len(s) : IsDigit(s[k])

RECURSIVE parseInt(_)
parseInt(s) ==
    IF s = <<>> THEN 0
    ELSE parseInt(SubSeq(s, 1, Len(s) - 1)) * 10 + DigitValue(s[Len(s)])

\* the three groups of s around exactly two separators sep, or <<>>
split3(s, sep) ==
    LET at == {k \in 1..Len(s) : s[k] = sep}
    IN IF Cardinality(at) # 2 THEN <<>>
       ELSE LET p == CHOOSE k \in at : \A o \in at : k <= o
                q == CHOOSE k \in at : \A o \in at : k >= o
            IN <<SubSeq(s, 1, p - 1), SubSeq(s, p + 1, q - 1), SubSeq(s, q + 1, Len(s))>>

\* new Date(dateStr) on the date-only ISO form YYYY-MM-DD: UTC midnight of a
\* real calendar day, NaN (null) otherwise.  On the slash and dash forms below
\* an engine's own parser, where it accepts the text, gives the instant the
\* fallback patterns compute, so those are left to the patterns.
newDateFromString(s) ==
    LET g == split3(s, "-")
    IN IF /\ g # <<>>
          /\ Len(g[1]) = 4 /\ Len(g[2]) = 2 /\ Len(g[3]) = 2
          /\ allDigits(g[1]) /\ allDigits(g[2]) /\ allDigits(g[3])
          /\ parseInt(g[2]) \in 1..12
          /\ parseInt(g[3]) \in 1..daysInMonth(parseInt(g[1]), parseInt(g[2]))
       THEN <<daysFromCivil(parseInt(g[1]), parseInt(g[2]), parseInt(g[3])) * 24>>
       ELSE null

\* the four fallback patterns, in order: <<separator, year first>>
formats == << <<"/", FALSE>>, <<"-", FALSE>>, <<"/", TRUE>>, <<"-", TRUE>> >>

\* dateStr.match(format): the groups a, b, c, or <<>>
match(s, format) ==
    LET g == split3(s, format[1])
        short(x) == Len(x) \in 1..2 /\ allDigits(x)
        year(x) == Len(x) = 4 /\ allDigits(x)
    IN IF g = <<>> THEN <<>>
       ELSE IF format[2]
            THEN (IF year(g[1]) /\ short(g[2]) /\ short(g[3]) THEN g ELSE <<>>)
            ELSE (IF short(g[1]) /\ short(g[2]) /\ year(g[3]) THEN g ELSE <<>>)

RECURSIVE tryFormats(_, _, _)
tryFormats(zone, s, k) ==
    IF k > Len(formats) THEN null
    ELSE LET m == match(s, formats[k])
         IN IF m = <<>> THEN tryFormats(zone, s, k + 1)
            ELSE IF Len(m[1]) = 4
                 THEN <<newDateLocal(zone, parseInt(m[1]), parseInt(m[2]) - 1, parseInt(m[3]))>>
                 ELSE <<newDateLocal(zone, parseInt(m[3]), parseInt(m[1]) - 1, parseInt(m[2]))>>

parseDate(zone, dateStr) ==
    IF dateStr = <<>> THEN null
    ELSE IF newDateFromString(dateStr) # null THEN newDateFromString(dateStr)
    ELSE tryFormats(zone, dateStr, 1)

----------------------------------------------------------------------------
(* Amounts *)

\* String(amountVal).replace(/[^0-9.\-+]/g, '')
cleanAmount(s) == SelectSeq(s, LAMBDA c : IsDigit(c) \/ c \in {".", "-", "+"})

\* length of the run of digits of s starting at position p
digitRun(s, p) ==
    CHOOSE n \in 0..(Len(s) + 1 - p) :
        /\ \A k \in p..(p + n - 1) : IsDigit(s[k])
        /\ (p + n > Len(s) \/ ~IsDigit(s[p + n]))

\* parseFloat: the longest prefix that is a decimal literal, in hundredths
\* (a third fraction digit is dropped), or null for NaN
parseFloat(s) ==
    LET signed == Len(s) >= 1 /\ s[1] \in {"+", "-"}
        p == IF signed THEN 2 ELSE 1
        nInt == digitRun(s, p)
        q == p + nInt
        dot == q <= Len(s) /\ s[q] = "."
        nFrac == IF dot THEN digitRun(s, q + 1) ELSE 0
        whole == parseInt(SubSeq(s, p, q - 1))
        frac == SubSeq(s, q + 1, q + nFrac)
        cents == IF nFrac = 0 THEN 0
                 ELSE IF nFrac = 1 THEN 10 * DigitValue(frac[1])
                 ELSE 10 * DigitValue(frac[1]) + DigitValue(frac[2])
        magnitude == whole * 100 + cents
    IN IF nInt = 0 /\ nFrac = 0 THEN null
       ELSE <<IF signed /\ s[1] = "-" THEN -magnitude ELSE magnitude>>

----------------------------------------------------------------------------
(* Row Normalizer *)

mapped(map, field, row) == map[field] # -1 /\ At(row, map[field]) # undefined

rowDate(zone, row, map) ==
    IF mapped(map, "date", row)
    THEN LET dateVal == At(row, map.date)
         IN IF dateVal.k = "Date" THEN <<dateVal.n>>
            ELSE parseDate(zone, String(dateVal))
    ELSE null

rowDescription(row, map) ==
    IF mapped(map, "description", row)
    THEN trim(String(At(row, map.description)))
    ELSE <<>>

rowCategory(row, map) ==
    IF mapped(map, "category", row) /\ trim(String(At(row, map.category))) # <<>>
    THEN trim(String(At(row, map.category)))
    ELSE <<"U","n","c","a","t","e","g","o","r","i","z","e","d">>

rowAmount(row, map) ==
    IF mapped(map, "amount", row)
    THEN LET amountVal == At(row, map.amount)
         IN IF amountVal.k = "number" THEN amountVal.n
            ELSE LET parsed == parseFloat(cleanAmount(String(amountVal)))
                 IN IF parsed = null THEN 0 ELSE parsed[1]
    ELSE 0

\* rowType with the type column ignored
rowTypeBySign(row, map, amount) == IF amount > 0 THEN <<"I","n","c","o","m","e">> ELSE <<"E","x","p","e","n","s","e">>

rowType(row, map, amount) ==
    IF mapped(map, "type", row)
    THEN LET typeVal == toLowerCase(String(At(row, map.type)))
         IN IF includes(typeVal, <<"i","n","c","o","m","e">>) \/ includes(typeVal, <<"i","n">>)
               \/ includes(typeVal, <<"c","r","e","d","i","t">>)
            THEN <<"I","n","c","o","m","e">>
            ELSE <<"E","x","p","e","n","s","e">>
    ELSE IF amount > 0 THEN <<"I","n","c","o","m","e">> ELSE <<"E","x","p","e","n","s","e">>

\* parseRow without Math.abs on the stored amount
parseRowKeepSign(zone, row, map) ==
    LET date == rowDate(zone, row, map)
        amount == rowAmount(row, map)
    IN IF date = null THEN null
       ELSE IF amount = 0 THEN null
       ELSE <<[date |-> date[1],
               description |-> rowDescription(row, map),
               category |-> rowCategory(row, map),
               amount |-> amount,
               type |-> rowType(row, map, amount)]>>

\* parseRow: <<record>> (without id), or null when the row is rejected
parseRow(zone, row, map) ==
    LET date == rowDate(zone, row, map)
        amount == rowAmount(row, map)
    IN IF date = null THEN null
       ELSE IF amount = 0 THEN null
       ELSE <<[date |-> date[1],
               description |-> rowDescription(row, map),
               category |-> rowCategory(row, map),
               amount |-> Abs(amount),
               type |-> rowType(row, map, amount)]>>

----------------------------------------------------------------------------
(* Ingestion Pipeline *)

withId(t, id) ==
    [id |-> id, date |-> t.date, description |-> t.description,
     category |-> t.category, amount |-> t.amount, type |-> t.type]

\* pushRow with the id taken from the position in the record list
pushRowPositionId(zone, acc, row, map, k) ==
    IF Len(row) = 0 THEN acc
    ELSE LET transaction == parseRow(zone, row, map)
         IN IF transaction # null
            THEN Append(acc, withId(transaction[1], Len(acc) + 1))
            ELSE acc

\* the body of the for loop of parseSheetData for row number k
pushRow(zone, acc, row, map, k) ==
    IF Len(row) = 0 THEN acc
    ELSE LET transaction == parseRow(zone, row, map)
         IN IF transaction # null THEN Append(acc, withId(transaction[1], k)) ELSE acc

RECURSIVE parseRowsFrom(_, _, _, _, _)
parseRowsFrom(zone, data, map, k, acc) ==
    IF k >= Len(data) THEN acc
    ELSE Apply(LAMBDA pushed : parseRowsFrom(zone, data, map, k + 1, pushed),
               pushRow(zone, acc, data[k + 1], map, k))

\* Object.keys(columnMap).filter(k => columnMap[k] !== -1)
columnsOf(map) == SelectSeq(Fields, LAMBDA f : map[f] # -1)

parseSheetData(zone, data) ==
    Apply(LAMBDA map : [transactions |-> parseRowsFrom(zone, data, map, 1, <<>>),
                        columns |-> columnsOf(map)],
          mapColumns(headerRow(data[1])))

pending ==
    [status |-> "pending", message |-> "", transactions |-> <<>>,
     totalRows |-> 0, parsedRows |-> 0, columns |-> <<>>]

rejectedWith(message) == [pending EXCEPT !.status = "rejected", !.message = message]

resolvedWith(data, result) ==
    [status |-> "resolved", message |-> "", transactions |-> result.transactions,
     totalRows |-> Len(data) - 1, parsedRows |-> Len(result.transactions),
     columns |-> result.columns]

EmptySheetMessage == "File appears to be empty or has no data rows"

\* the test with the bound off by one
tooFewRowsOffByOne(data) == Len(data) < 1

\* rawData.length < 2
tooFewRows(data) == Len(data) < 2

\* reader.onload of parseExcelFile on a decoded sheet, as one step
parseExcelFile(zone, data) ==
    IF tooFewRows(data) THEN rejectedWith(EmptySheetMessage)
    ELSE Apply(LAMBDA result : resolvedWith(data, result), parseSheetData(zone, data))

----------------------------------------------------------------------------
(* Inputs of the pipeline *)

MaxHeaders == 3
MaxRows == 3

TimeZones == {-5, 0, 2}

RECURSIVE stripTrailing(_)
\* a decoded row ends at its last cell: trailing holes do not exist
stripTrailing(row) ==
    IF row = <<>> THEN row
    ELSE IF row[Len(row)] = undefined THEN stripTrailing(SubSeq(row, 1, Len(row) - 1))
    ELSE row

SeqsUpTo(S, n) == UNION {[1..m -> S] : m \in 0..n}

HeaderVocab ==
    {Text(<<"D","a","t","e">>), Text(<<"T","r","a","n","s","a","c","t","i","o","n"," ","D","a","t","e">>), Text(<<"D","e","s","c","r","i","p","t","i","o","n">>),
     Text(<<"C","a","t","e","g","o","r","y">>), Text(<<" ","A","m","o","u","n","t">>), Text(<<"T","y","p","e">>),
     Text(<<"I","n","c","o","m","e","/","E","x","p","e","n","s","e">>), Text(<<"N","o","t","e","s">>), undefined}

TemplateHeaders ==
    <<Text(<<"D","a","t","e">>), Text(<<"D","e","s","c","r","i","p","t","i","o","n">>), Text(<<"C","a","t","e","g","o","r","y">>), Text(<<"A","m","o","u","n","t">>),
      Text(<<"T","y","p","e">>)>>

KindHeaders ==
    <<Text(<<"D","a","t","e">>), Text(<<"D","e","s","c","r","i","p","t","i","o","n">>), Text(<<"C","a","t","e","g","o","r","y">>), Text(<<"A","m","o","u","n","t">>),
      Text(<<"I","n","c","o","m","e","/","E","x","p","e","n","s","e">>)>>

NoDateHeaders == <<Text(<<"D","e","s","c","r","i","p","t","i","o","n">>), Text(<<"A","m","o","u","n","t">>)>>

NoAmountHeaders == <<Text(<<"D","a","t","e">>), Text(<<"D","e","s","c","r","i","p","t","i","o","n">>)>>

Jan15 == daysFromCivil(2026, 1, 15) * 24

DateCells ==
    {Text(<<"2","0","2","6","-","0","1","-","0","2">>), Text(<<"0","1","/","1","5","/","2","0","2","6">>), Text(<<"2","0","2","6","/","1","/","5">>),
     Text(<<"1","3","/","4","5","/","2","0","2","6">>), Text(<<"2","0","2","6","-","0","2","-","3","0">>), Text(<<"n","/","a">>), Text(<<>>),
     DateValue(Jan15), undefined}

DescriptionCells == {Text(<<" ","G","r","o","c","e","r","y"," ","S","t","o","r","e"," ">>), undefined}

CategoryCells == {Text(<<"F","o","o","d"," ","&"," ","D","i","n","i","n","g">>), Text(<<" "," ">>)}

AmountCells ==
    {Num(-15000), Num(12550), Num(0), Text(<<"$","1",",","2","0","0",".","0","0">>), Text(<<"-","4","5",".","5">>),
     Text(<<"0",".","0","0">>), Text(<<"a","b","c">>), Text(<<>>), undefined}

TypeCells == {Text(<<"I","n","c","o","m","e">>), Text(<<"E","x","p","e","n","s","e">>), Text(<<"C","R","E","D","I","T">>), undefined}

FiveColumnRows ==
    {stripTrailing(<<d, s, c, a, t>>) :
        d \in DateCells, s \in DescriptionCells, c \in CategoryCells,
        a \in AmountCells, t \in TypeCells}

GroceryRow ==
    <<Text(<<"2","0","2","6","-","0","1","-","0","2">>), Text(<<"G","r","o","c","e","r","y"," ","S","t","o","r","e">>), Text(<<"F","o","o","d"," ","&"," ","D","i","n","i","n","g">>),
      Num(-15000), Text(<<"E","x","p","e","n","s","e">>)>>

PositiveExpenseRow ==
    <<Text(<<"2","0","2","6","-","0","1","-","1","5">>), Text(<<"G","r","o","c","e","r","y"," ","S","t","o","r","e">>), Text(<<"F","o","o","d"," ","&"," ","D","i","n","i","n","g">>),
      Num(12550), Text(<<"E","x","p","e","n","s","e">>)>>

BadDateRow ==
    <<Text(<<"n","/","a">>), Text(<<"B","r","o","k","e","n">>), Text(<<"M","i","s","c">>), Num(1000), Text(<<"E","x","p","e","n","s","e">>)>>

ZeroAmountRow == <<Text(<<"2","0","2","6","-","0","1","-","1","5">>), Text(<<"Z","e","r","o">>), Text(<<"M","i","s","c">>), Num(0)>>

SampleRows == {GroceryRow, PositiveExpenseRow, BadDateRow, ZeroAmountRow, <<>>}

TwoColumnRows ==
    {<<Text(<<"2","0","2","6","-","0","1","-","0","2">>), Num(-15000)>>, <<Text(<<"R","e","n","t">>), Num(-90000)>>, <<>>}

\* sheets that sweep the cells of one data row
RowSheets == {<<hs, row>> : hs \in {TemplateHeaders, KindHeaders}, row \in FiveColumnRows}

\* sheets of up to MaxRows data rows
ManyRowSheets ==
    {<<hs>> \o rows : hs \in {TemplateHeaders, KindHeaders},
                      rows \in SeqsUpTo(SampleRows, MaxRows)}
    \cup {<<hs>> \o rows : hs \in {NoDateHeaders, NoAmountHeaders},
                           rows \in SeqsUpTo(TwoColumnRows, MaxRows)}

Sheets == {<<>>} \cup RowSheets \cup ManyRowSheets

\* the header rows the column mapper is run on
HeaderRows ==
    {headerRow(hs) : hs \in SeqsUpTo(HeaderVocab, MaxHeaders)
                             \cup {TemplateHeaders, KindHeaders}}

----------------------------------------------------------------------------
(* Dates as text *)

\* the civil date <<y, m, d>> of a count of days from 1970-01-01
civilFromDays(days) ==
    LET z == days + 719468
        era == z \div 146097
        doe == z - era * 146097
        yoe == (doe - doe \div 1460 + doe \div 36524 - doe \div 146096) \div 365
        doy == doe - (365 * yoe + yoe \div 4 - yoe \div 100)
        mp == (5 * doy + 2) \div 153
        d == doy - (153 * mp + 2) \div 5 + 1
        m == IF mp < 10 THEN mp + 3 ELSE mp - 9
        y == yoe + era * 400 + (IF m <= 2 THEN 1 ELSE 0)
    IN <<y, m, d>>

\* String(n).padStart(width, '0')
padStart(n, width) ==
    LET s == natChars(n)
    IN [k \in 1..(width - Len(s)) |-> "0"] \o s

\* Date.prototype.toISOString: the UTC reading YYYY-MM-DDTHH:00:00.000Z
toISOString(t) ==
    LET c == civilFromDays(t \div 24)
    IN padStart(c[1], 4) \o <<"-">> \o padStart(c[2], 2) \o <<"-">> \o padStart(c[3], 2)
       \o <<"T">> \o padStart(t % 24, 2) \o <<":","0","0",":","0","0",".","0","0","0","Z">>

\* s.split('T')[0]
beforeT(s) ==
    IF \E k \in 1..Len(s) : s[k] = "T"
    THEN SubSeq(s, 1, (CHOOSE k \in 1..Len(s) :
                          s[k] = "T" /\ \A o \in 1..(k - 1) : s[o] # "T") - 1)
    ELSE s

\* formatDateForInput of renderFilterBar
formatDateForInput(date) == IF date = null THEN <<>> ELSE beforeT(toISOString(date[1]))

\* new Date(s) on the output of toISOString
newDateFromISOString(s) ==
    daysFromCivil(parseInt(SubSeq(s, 1, 4)), parseInt(SubSeq(s, 6, 7)),
                  parseInt(SubSeq(s, 9, 10))) * 24
    + parseInt(SubSeq(s, 12, 13))

----------------------------------------------------------------------------
(* calculations.js: the filters *)

Uncategorized == <<"U","n","c","a","t","e","g","o","r","i","z","e","d">>

\* the options of the category select; their sort order is not modelled
getUniqueCategories(ts) ==
    {IF ts[k].category = <<>> THEN Uncategorized ELSE ts[k].category : k \in 1..Len(ts)}

getDateRange(ts) ==
    IF Len(ts) = 0 THEN [min |-> null, max |-> null]
    ELSE LET dates == {ts[k].date : k \in 1..Len(ts)}
         IN [min |-> <<CHOOSE a \in dates : \A b \in dates : a <= b>>,
             max |-> <<CHOOSE a \in dates : \A b \in dates : a >= b>>]

\* startDate and endDate are null when they are Invalid Date: every
\* comparison with one is false
filterByDateRange(ts, startDate, endDate) ==
    SelectSeq(ts, LAMBDA t : /\ startDate # null /\ endDate # null
                             /\ t.date >= startDate[1] /\ t.date <= endDate[1])

\* a category filter that keeps every record when none is of the category
filterByCategoryOrAll(ts, category) ==
    IF \E k \in 1..Len(ts) : ts[k].category = category
    THEN SelectSeq(ts, LAMBDA t : t.category = category)
    ELSE ts

filterByCategory(ts, category) ==
    IF category = <<>> \/ category = <<"a","l","l">> THEN ts
    ELSE SelectSeq(ts, LAMBDA t : t.category = category)

filterByType(ts, type) ==
    IF type = <<>> \/ type = <<"a","l","l">> THEN ts
    ELSE SelectSeq(ts, LAMBDA t : toLowerCase(t.type) = toLowerCase(type))

searchTransactions(ts, query) ==
    IF query = <<>> THEN ts
    ELSE SelectSeq(ts, LAMBDA t : \/ includes(toLowerCase(t.description), toLowerCase(query))
                                  \/ includes(toLowerCase(t.category), toLowerCase(query)))

----------------------------------------------------------------------------
(* storage.js *)

\* JSON.stringify of a record: the date becomes its toISOString text
stringifyTransaction(t) == [t EXCEPT !.date = toISOString(t.date)]

\* a save that stores the first record only
saveTransactionsFirstOnly(ts) ==
    <<[json |-> TRUE,
       transactions |-> [k \in 1..(IF Len(ts) > 1 THEN 1 ELSE Len(ts)) |->
                            stringifyTransaction(ts[k])]]>>

\* the item saveTransactions stores; lastUpdated, the time of saving, is not modelled
saveTransactions(ts) ==
    <<[json |-> TRUE, transactions |-> [k \in 1..Len(ts) |-> stringifyTransaction(ts[k])]]>>

\* an item that is not JSON text
garbage == <<[json |-> FALSE, transactions |-> <<>>]>>

\* <<the stored object>> with the dates restored, or null
loadTransactions(item) ==
    IF item = null THEN null
    ELSE IF ~item[1].json THEN null
    ELSE <<[transactions |->
              [k \in 1..Len(item[1].transactions) |->
                  [item[1].transactions[k] EXCEPT
                      !.date = newDateFromISOString(item[1].transactions[k].date)]]]>>

\* localStorage.removeItem
clearTransactions == null

----------------------------------------------------------------------------
(* FilterBar.js *)

defaultFilters ==
    [search |-> <<>>, category |-> <<"a","l","l">>, type |-> <<"a","l","l">>,
     dateFrom |-> <<>>, dateTo |-> <<>>]

\* the filter bar renderFilterBar writes into the document
renderFilterBar(ts, filters) ==
    LET categories == getUniqueCategories(ts)
        dateRange == getDateRange(ts)
    IN <<[search |-> filters.search,
          category |-> IF filters.category \in categories THEN filters.category
                       ELSE <<"a","l","l">>,
          type |-> IF filters.type \in {<<"i","n","c","o","m","e">>, <<"e","x","p","e","n","s","e">>} THEN filters.type
                   ELSE <<"a","l","l">>,
          dateFrom |-> IF filters.dateFrom # <<>> THEN filters.dateFrom
                       ELSE formatDateForInput(dateRange.min),
          dateTo |-> IF filters.dateTo # <<>> THEN filters.dateTo
                     ELSE formatDateForInput(dateRange.max),
          options |-> categories]>>

\* getFilterValues: read from the document; the defaults where there is no
\* filter bar
getFilterValues(bar) ==
    IF bar = null THEN defaultFilters
    ELSE [search |-> bar[1].search,
          category |-> IF bar[1].category = <<>> THEN <<"a","l","l">> ELSE bar[1].category,
          type |-> IF bar[1].type = <<>> THEN <<"a","l","l">> ELSE bar[1].type,
          dateFrom |-> bar[1].dateFrom,
          dateTo |-> bar[1].dateTo]

\* a Reset that leaves the two date inputs as they are
resetControlsKeepingDates(bar) ==
    <<[bar[1] EXCEPT !.search = <<>>, !.category = <<"a","l","l">>, !.type = <<"a","l","l">>]>>

\* the click handler of the Reset button, before triggerFilterChange
resetControls(bar) ==
    <<[bar[1] EXCEPT !.search = <<>>, !.category = <<"a","l","l">>, !.type = <<"a","l","l">>,
                     !.dateFrom = <<>>, !.dateTo = <<>>]>>

----------------------------------------------------------------------------
(* app.js *)

initialState ==
    [transactions |-> <<>>, filteredTransactions |-> <<>>,
     filters |-> defaultFilters, isLoaded |-> FALSE]

\* new Date(8640000000000000), the latest instant a Date can hold, taken as
\* the largest hour count of the integers used here: it lies after every date
\* of the model, as the source's lies after every date
LatestDate == 2147483647

applyFilters(st) ==
    LET f == st.filters
        searched == IF f.search # <<>> THEN searchTransactions(st.transactions, f.search)
                    ELSE st.transactions
        byCategory == IF f.category # <<>> /\ f.category # <<"a","l","l">>
                      THEN filterByCategory(searched, f.category)
                      ELSE searched
        byType == IF f.type # <<>> /\ f.type # <<"a","l","l">>
                  THEN filterByType(byCategory, f.type)
                  ELSE byCategory
        startDate == IF f.dateFrom # <<>> THEN newDateFromString(f.dateFrom) ELSE <<0>>
        endDate == IF f.dateTo # <<>> THEN newDateFromString(f.dateTo) ELSE <<LatestDate>>
        byDate == IF f.dateFrom # <<>> \/ f.dateTo # <<>>
                  THEN filterByDateRange(byType, startDate, endDate)
                  ELSE byType
    IN [st EXCEPT !.filteredTransactions = byDate]

handleFilterChange(st, filters) == applyFilters([st EXCEPT !.filters = filters])

\* handleFileLoaded that appends to the record set
handleFileLoadedMerging(st, result) ==
    [st EXCEPT !.transactions = st.transactions \o result.transactions,
               !.filteredTransactions = st.transactions \o result.transactions,
               !.isLoaded = TRUE]

\* the assignments of handleFileLoaded to state
handleFileLoaded(st, result) ==
    [st EXCEPT !.transactions = result.transactions,
               !.filteredTransactions = result.transactions,
               !.isLoaded = TRUE]

\* a clear that empties the record lists and leaves isLoaded as it is
handleClearDataStillLoaded(st) ==
    [st EXCEPT !.transactions = <<>>, !.filteredTransactions = <<>>,
               !.filters = defaultFilters]

\* the assignments of handleClearData to state
handleClearData(st) ==
    [transactions |-> <<>>, filteredTransactions |-> <<>>,
     filters |-> defaultFilters, isLoaded |-> FALSE]

\* the assignments of initApp to state when the stored set is restored
restoreStored(st, stored) ==
    [st EXCEPT !.transactions = stored.transactions,
               !.filteredTransactions = stored.transactions,
               !.isLoaded = TRUE]

noToast == [type |-> "none", message |-> "", parsedRows |-> 0, fileName |-> <<>>]

showToast(message, type) ==
    [type |-> type, message |-> message, parsedRows |-> 0, fileName |-> <<>>]

\* showToast(`Loaded ${result.parsedRows} transactions from ${result.fileName}`)
loadedToast(result, fileName) ==
    [type |-> "success", message |-> "Loaded", parsedRows |-> result.parsedRows,
     fileName |-> fileName]

----------------------------------------------------------------------------
(* FileUpload.js and the files the user can choose *)

validTypes ==
    {"application/vnd.openxmlformats-officedocument.spreadsheetml.sheet",
     "application/vnd.ms-excel", "application/excel", "application/x-excel"}

validExtensions == {<<".","x","l","s","x">>, <<".","x","l","s">>, <<".","x","l","s","m">>}

\* String.prototype.lastIndexOf of one character: 0-based, -1 when absent
lastIndexOf(s, c) ==
    LET at == {k \in 1..Len(s) : s[k] = c}
    IN IF at = {} THEN -1 ELSE (CHOOSE k \in at : \A o \in at : k >= o) - 1

\* String.prototype.slice(start): a negative start counts from the end
slice(s, start) ==
    LET from == IF start < 0 THEN (IF Len(s) + start < 0 THEN 0 ELSE Len(s) + start)
                ELSE start
    IN SubSeq(s, from + 1, Len(s))

isValidExcelFile(file) ==
    LET extension == slice(toLowerCase(file.name), lastIndexOf(file.name, "."))
    IN file.type \in validTypes \/ extension \in validExtensions

InvalidTypeMessage == "Invalid file type. Please upload an Excel file (.xlsx or .xls)"
NoTransactionsMessage ==
    "No valid transactions found in the file. Please check the file format."
ReadFailedMessage == "Failed to read file"
\* `Failed to parse Excel file: ${error.message}`, without the decoder's text
ParseFailedMessage == "Failed to parse Excel file"

JanuarySheet ==
    <<KindHeaders,
      <<Text(<<"2","0","2","6","-","0","1","-","0","2">>), Text(<<"G","r","o","c","e","r","y"," ","S","t","o","r","e">>), Text(<<"F","o","o","d"," ","&"," ","D","i","n","i","n","g">>),
        Num(-15000), Text(<<"E","x","p","e","n","s","e">>)>>,
      <<Text(<<"n","/","a">>), Text(<<"B","r","o","k","e","n">>), Text(<<"M","i","s","c">>), Num(1000)>>,
      <<Text(<<"0","1","/","1","5","/","2","0","2","6">>), Text(<<"S","a","l","a","r","y">>), Text(<<"S","a","l","a","r","y">>), Num(300000),
        Text(<<"I","n","c","o","m","e">>)>> >>

FebruarySheet ==
    <<TemplateHeaders,
      <<Text(<<"0","2","/","0","1","/","2","0","2","6">>), Text(<<"R","e","n","t">>), Text(<<"H","o","u","s","i","n","g">>), Num(-90000),
        Text(<<"E","x","p","e","n","s","e">>)>> >>

HeaderOnlySheet == <<TemplateHeaders>>

NoValidRowSheet == <<TemplateHeaders, BadDateRow, ZeroAmountRow>>

\* content: "sheet" (a workbook whose first sheet decodes to sheet), "corrupt"
\* (XLSX.read throws) or "unreadable" (the FileReader reports an error)
Files ==
    [january |-> [name |-> <<"j","a","n","u","a","r","y",".","x","l","s","x">>, type |-> "", content |-> "sheet",
                  sheet |-> JanuarySheet],
     february |-> [name |-> <<"F","E","B",".","2","0","2","6",".","X","L","S">>, type |-> "application/vnd.ms-excel",
                   content |-> "sheet", sheet |-> FebruarySheet],
     headerOnly |-> [name |-> <<"e","m","p","t","y",".","x","l","s","m">>, type |-> "", content |-> "sheet",
                     sheet |-> HeaderOnlySheet],
     noValidRow |-> [name |-> <<"d","r","a","f","t">>, type |-> "application/excel",
                     content |-> "sheet", sheet |-> NoValidRowSheet],
     notes |-> [name |-> <<"n","o","t","e","s",".","x","l","s","x",".","t","x","t">>, type |-> "text/plain",
                content |-> "sheet", sheet |-> NoValidRowSheet],
     corrupt |-> [name |-> <<"b","r","o","k","e","n",".","x","l","s","x">>, type |-> "", content |-> "corrupt",
                  sheet |-> <<>>],
     unreadable |-> [name |-> <<"g","o","n","e",".","x","l","s">>, type |-> "", content |-> "unreadable",
                     sheet |-> <<>>],
     dotted |-> [name |-> <<"U+0130">> \o <<".","x","l","s","x">>, type |-> "",
                 content |-> "sheet", sheet |-> HeaderOnlySheet]]

FileIds == DOMAIN Files

\* a result that is taken as loaded whatever it holds
noTransactionsIgnored(result) == FALSE

\* handleFile: result.transactions.length === 0
noTransactions(result) == Len(result.transactions) = 0

\* the promise parseExcelFile(file) settles with
settle(zone, file) ==
    IF file.content = "unreadable" THEN rejectedWith(ReadFailedMessage)
    ELSE IF file.content = "corrupt" THEN rejectedWith(ParseFailedMessage)
    ELSE parseExcelFile(zone, file.sheet)

\* settle for every file, in the time zone zone
settleAll(zone) == [f \in FileIds |-> settle(zone, Files[f])]

\* what the user can type into the search box and pick in the date inputs
SearchTexts == {<<>>, <<"S","A","L">>}

DateInputs == {<<>>, <<"2","0","2","6","-","0","1","-","1","5">>}

\* every category the files hold, and the first option of the select
CategoryOptions == {<<"a","l","l">>, <<"F","o","o","d"," ","&"," ","D","i","n","i","n","g">>, <<"S","a","l","a","r","y">>, <<"H","o","u","s","i","n","g">>}

TypeOptions == {<<"a","l","l">>, <<"i","n","c","o","m","e">>, <<"e","x","p","e","n","s","e">>}

----------------------------------------------------------------------------
(* calculations.js: the aggregations *)

\* reduce((sum, t) => sum + Math.abs(t.amount), 0)
RECURSIVE sumOfAbs(_)
sumOfAbs(ts) == IF ts = <<>> THEN 0 ELSE Abs(Head(ts).amount) + sumOfAbs(Tail(ts))

calculateTotalIncome(ts) ==
    sumOfAbs(SelectSeq(ts, LAMBDA t : t.type = <<"i","n","c","o","m","e">> \/ t.type = <<"I","n","c","o","m","e">>))

calculateTotalExpenses(ts) ==
    sumOfAbs(SelectSeq(ts, LAMBDA t : t.type = <<"e","x","p","e","n","s","e">> \/ t.type = <<"E","x","p","e","n","s","e">>))

\* a balance that adds the expenses
calculateBalanceAdding(ts) == calculateTotalIncome(ts) + calculateTotalExpenses(ts)

calculateBalance(ts) ==
    LET income == calculateTotalIncome(ts)
        expenses == calculateTotalExpenses(ts)
    IN income - expenses

RECURSIVE gcd(_, _)
gcd(a, b) == IF b = 0 THEN a ELSE gcd(b, a % b)

\* a finite quotient, held as a fraction in lowest terms with a positive
\* denominator, and the values a division by zero gives
Quotient(num, den) == [k |-> "finite", num |-> num, den |-> den]
NotFinite(k) == [k |-> k, num |-> 0, den |-> 0]

\* a / b of two numbers
divide(a, b) ==
    IF b = 0
    THEN NotFinite(IF a = 0 THEN "NaN" ELSE IF a > 0 THEN "Infinity" ELSE "-Infinity")
    ELSE LET g == gcd(Abs(a), Abs(b))
             sign == IF b < 0 THEN -1 ELSE 1
         IN Quotient(sign * (a \div g), sign * (b \div g))

\* Math.max(0, x)
maxWithZero(x) ==
    CASE x.k \in {"NaN", "Infinity"} -> x
      [] x.k = "-Infinity" -> Quotient(0, 1)
      [] x.k = "finite" -> IF x.num < 0 THEN Quotient(0, 1) ELSE x

\* a savings rate without the clamp at 0
calculateSavingsRateUnclamped(ts) ==
    LET income == calculateTotalIncome(ts)
    IN IF income = 0 THEN Quotient(0, 1) ELSE divide(calculateBalance(ts), income)

calculateSavingsRate(ts) ==
    LET income == calculateTotalIncome(ts)
    IN IF income = 0 THEN Quotient(0, 1)
       ELSE maxWithZero(divide(calculateBalance(ts), income))

\* A plain object ({}) is the sequence of its own properties, in insertion
\* order, each [key, value]; what it does not own it inherits from
\* Object.prototype, whose properties are functions (and __proto__, an object).
owns(obj, key) == \E k \in 1..Len(obj) : obj[k].key = key

\* obj[key]
get(obj, key) ==
    IF owns(obj, key) THEN obj[CHOOSE k \in 1..Len(obj) : obj[k].key = key].value
    ELSE IF key = <<"_","_","p","r","o","t","o","_","_">> THEN [k |-> "object", s |-> <<>>, n |-> 0]
    ELSE IF key = <<"c","o","n","s","t","r","u","c","t","o","r">> THEN [k |-> "function", s |-> <<"O","b","j","e","c","t">>, n |-> 0]
    ELSE IF key \in {<<"t","o","S","t","r","i","n","g">>, <<"v","a","l","u","e","O","f">>, <<"h","a","s","O","w","n","P","r","o","p","e","r","t","y">>}
    THEN [k |-> "function", s |-> key, n |-> 0]
    ELSE undefined

\* obj[key] = value, for a primitive value: the __proto__ setter ignores it
set(obj, key, value) ==
    IF key = <<"_","_","p","r","o","t","o","_","_">> THEN obj
    ELSE IF owns(obj, key)
    THEN [k \in 1..Len(obj) |-> IF obj[k].key = key THEN [key |-> key, value |-> value]
                                ELSE obj[k]]
    ELSE Append(obj, [key |-> key, value |-> value])

\* v || 0
orZero(v) ==
    IF v.k = "undefined" \/ (v.k = "number" /\ v.n = 0) \/ (v.k = "string" /\ v.s = <<>>)
    THEN Num(0) ELSE v

\* String(v) of any value; a native function reads "function name() { [native code] }"
toText(v) ==
    CASE v.k = "function" -> <<"f","u","n","c","t","i","o","n"," ">> \o v.s \o <<"(",")"," ","{"," ","[","n","a","t","i","v","e"," ","c","o","d","e","]"," ","}">>
      [] v.k = "object" -> <<"[","o","b","j","e","c","t"," ","O","b","j","e","c","t","]">>
      [] OTHER -> String(v)

\* a + b: the sum of two numbers, else the concatenation of the two texts
plus(a, b) ==
    IF a.k = "number" /\ b.k = "number" THEN Num(a.n + b.n)
    ELSE Text(toText(a) \o toText(b))

\* the reducer of calculateByCategory
addToCategory(acc, t) ==
    LET category == IF t.category # <<>> THEN t.category ELSE Uncategorized
    IN set(acc, category, plus(orZero(get(acc, category)), Num(Abs(t.amount))))

RECURSIVE reduceByCategory(_, _)
reduceByCategory(acc, ts) ==
    IF ts = <<>> THEN acc ELSE reduceByCategory(addToCategory(acc, Head(ts)), Tail(ts))

calculateByCategory(ts, type) ==
    LET filtered == IF type # <<"a","l","l">>
                    THEN SelectSeq(ts, LAMBDA t : toLowerCase(t.type) = toLowerCase(type))
                    ELSE ts
    IN reduceByCategory(<<>>, filtered)

\* `${date.getFullYear()}-${String(date.getMonth() + 1).padStart(2, '0')}`,
\* the date read in local time
monthKey(zone, t) ==
    LET c == civilFromDays((t + zone) \div 24)
    IN natChars(c[1]) \o <<"-">> \o padStart(c[2], 2)

\* the forEach callback of calculateByMonth; the keys of monthlyData are
\* month keys, which Object.prototype does not hold
addToMonth(zone, monthlyData, t) ==
    LET key == monthKey(zone, t.date)
        created == IF ~owns(monthlyData, key)
                   THEN Append(monthlyData,
                               [key |-> key,
                                value |-> [income |-> 0, expenses |-> 0, month |-> key]])
                   ELSE monthlyData
        amount == Abs(t.amount)
    IN [k \in 1..Len(created) |->
          IF created[k].key # key THEN created[k]
          ELSE IF toLowerCase(t.type) = <<"i","n","c","o","m","e">>
          THEN [key |-> key,
                value |-> [created[k].value EXCEPT !.income = @ + amount]]
          ELSE [key |-> key,
                value |-> [created[k].value EXCEPT !.expenses = @ + amount]]]

RECURSIVE forEachByMonth(_, _, _)
forEachByMonth(zone, monthlyData, ts) ==
    IF ts = <<>> THEN monthlyData
    ELSE forEachByMonth(zone, addToMonth(zone, monthlyData, Head(ts)), Tail(ts))

\* a.localeCompare(b) < 0 for texts of digits and hyphens: the first
\* differing character decides, a proper prefix comes first
RECURSIVE localeBefore(_, _)
localeBefore(a, b) ==
    IF b = <<>> THEN FALSE
    ELSE IF a = <<>> THEN TRUE
    ELSE IF Head(a) # Head(b)
    THEN IsDigit(Head(b)) /\ (IsDigit(Head(a)) => DigitValue(Head(a)) < DigitValue(Head(b)))
    ELSE localeBefore(Tail(a), Tail(b))

\* Array.prototype.sort with (a, b) => a.month.localeCompare(b.month):
\* a stable insertion of each entry after the entries not above it
RECURSIVE insertByMonth(_, _)
insertByMonth(sorted, e) ==
    IF sorted = <<>> THEN <<e>>
    ELSE IF localeBefore(e.month, Head(sorted).month) THEN <<e>> \o sorted
    ELSE <<Head(sorted)>> \o insertByMonth(Tail(sorted), e)

RECURSIVE sortByMonth(_)
sortByMonth(entries) ==
    IF entries = <<>> THEN <<>>
    ELSE insertByMonth(sortByMonth(SubSeq(entries, 1, Len(entries) - 1)),
                       entries[Len(entries)])

\* Object.values
values(obj) == [k \in 1..Len(obj) |-> obj[k].value]

\* a calculateByMonth that returns the months in the order they were met
calculateByMonthUnsorted(zone, ts) == values(forEachByMonth(zone, <<>>, ts))

\* a calculateByMonth that reads the first record only
calculateByMonthOfFirst(zone, ts) ==
    sortByMonth(values(forEachByMonth(zone, <<>>,
                                      IF ts = <<>> THEN ts ELSE <<Head(ts)>>)))

calculateByMonth(zone, ts) == sortByMonth(values(forEachByMonth(zone, <<>>, ts)))

\* Charts.js: getSummaryData
getSummaryData(ts) ==
    [totalIncome |-> calculateTotalIncome(ts),
     totalExpenses |-> calculateTotalExpenses(ts),
     balance |-> calculateBalance(ts),
     savingsRate |-> calculateSavingsRate(ts),
     transactionCount |-> Len(ts)]

----------------------------------------------------------------------------
(* mapColumns, one forEach callback at a time *)

\* the application is not part of the run
noReport == [fn |-> "none", value |-> <<>>]

\* no function of calculations.js has been called
CalcIdle ==
    /\ records = <<>>
    /\ criteria = defaultFilters
    /\ report = noReport

\* no file has been handed to handleFile
noUpload == [pc |-> "idle", file |-> "none", attempt |-> 0, settled |-> 0, calls |-> <<>>]

\* the module variables of TransactionTable.js as they are declared; no table
\* has been rendered
initialTable ==
    [currentPage |-> 1, pageSize |-> 10, sortColumn |-> "date",
     sortDirection |-> "desc", rendered |-> FALSE, length |-> 0]

PageIdle ==
    /\ upload = noUpload
    /\ table = initialTable

AppIdle ==
    /\ CalcIdle
    /\ PageIdle
    /\ state = initialState
    /\ localStorage = null
    /\ view = "none"
    /\ controls = null
    /\ searchTimeout = FALSE
    /\ orphans = 0
    /\ reads = {}
    /\ toast = noToast
    /\ source = [kind |-> "none", file |-> "none"]
    /\ events = 0
    /\ results = <<>>

InitMap ==
    /\ headers \in HeaderRows
    /\ pc = "mapColumns"
    /\ columnMap = unmapped
    /\ index = 0
    /\ tz = 0
    /\ rawData = <<>>
    /\ i = 0
    /\ transactions = <<>>
    /\ outcome = pending
    /\ AppIdle

\* one call of the forEach callback of mapColumns
ScanHeader ==
    /\ pc = "mapColumns"
    /\ index < Len(headers)
    /\ columnMap' = forEachHeader(columnMap, headers[index + 1], index)
    /\ index' = index + 1
    /\ UNCHANGED <<tz, pc, rawData, headers, i, transactions, outcome>>
    /\ UNCHANGED <<appVars, calcVars, pageVars>>

\* forEach is over: mapColumns returns the map
MapColumnsReturn ==
    /\ pc = "mapColumns"
    /\ index = Len(headers)
    /\ pc' = "mapped"
    /\ UNCHANGED <<tz, rawData, headers, columnMap, index, i, transactions, outcome>>
    /\ UNCHANGED <<appVars, calcVars, pageVars>>

NextMap ==
    \/ ScanHeader
    \/ MapColumnsReturn

SpecMap == InitMap /\ [][NextMap]_vars

----------------------------------------------------------------------------
(* reader.onload of parseExcelFile, one row at a time *)

InitIngest ==
    /\ tz \in TimeZones
    /\ rawData \in Sheets
    /\ pc = "onload"
    /\ headers = <<>>
    /\ columnMap = unmapped
    /\ index = 0
    /\ i = 0
    /\ transactions = <<>>
    /\ outcome = pending
    /\ AppIdle

\* rawData.length < 2: reject and return, before parseSheetData is entered
RejectEmpty ==
    /\ pc = "onload"
    /\ tooFewRows(rawData)
    /\ pc' = "rejected"
    /\ outcome' = rejectedWith(EmptySheetMessage)
    /\ UNCHANGED <<tz, rawData, headers, columnMap, index, i, transactions>>
    /\ UNCHANGED <<appVars, calcVars, pageVars>>

\* parseSheetData is entered: the header row is read and mapped, and the row
\* loop starts at i = 1
EnterParseSheetData ==
    /\ pc = "onload"
    /\ ~tooFewRows(rawData)
    /\ headers' = headerRow(rawData[1])
    /\ columnMap' = mapColumns(headers')
    /\ index' = Len(headers')
    /\ i' = 1
    /\ transactions' = <<>>
    /\ pc' = "rows"
    /\ UNCHANGED <<tz, rawData, outcome>>
    /\ UNCHANGED <<appVars, calcVars, pageVars>>

\* one iteration of the row loop
RowStep ==
    /\ pc = "rows"
    /\ i < Len(rawData)
    /\ transactions' = pushRow(tz, transactions, rawData[i + 1], columnMap, i)
    /\ i' = i + 1
    /\ UNCHANGED <<tz, pc, rawData, headers, columnMap, index, outcome>>
    /\ UNCHANGED <<appVars, calcVars, pageVars>>

\* the loop ends; parseSheetData returns and the promise resolves
Resolve ==
    /\ pc = "rows"
    /\ i >= Len(rawData)
    /\ outcome' = resolvedWith(rawData, [transactions |-> transactions,
                                         columns |-> columnsOf(columnMap)])
    /\ pc' = "resolved"
    /\ UNCHANGED <<tz, rawData, headers, columnMap, index, i, transactions>>
    /\ UNCHANGED <<appVars, calcVars, pageVars>>

NextIngest ==
    \/ RejectEmpty
    \/ EnterParseSheetData
    \/ RowStep
    \/ Resolve

SpecIngest == InitIngest /\ [][NextIngest]_vars

----------------------------------------------------------------------------
(* The application: app.js driven by the page's events *)

MaxEvents == 5
MaxReads == 2

IngestIdle ==
    /\ pc = "idle"
    /\ rawData = <<>>
    /\ headers = <<>>
    /\ columnMap = unmapped
    /\ index = 0
    /\ i = 0
    /\ transactions = <<>>
    /\ outcome = pending

noSource == [kind |-> "none", file |-> "none"]

\* the module of app.js has been evaluated; DOMContentLoaded has not fired
Init ==
    /\ tz \in TimeZones
    /\ IngestIdle
    /\ PageIdle
    /\ CalcIdle
    /\ state = initialState
    /\ localStorage \in {null, garbage}
    /\ view = "none"
    /\ controls = null
    /\ searchTimeout = FALSE
    /\ orphans = 0
    /\ reads = {}
    /\ toast = noToast
    /\ source = noSource
    /\ events = 0
    /\ results = settleAll(tz)

\* renderDashboard: the dashboard is shown and the filter bar is rendered
\* anew; a pending debounce timer stays with the listeners of the old bar
RenderDashboard(st) ==
    /\ view' = "dashboard"
    /\ controls' = renderFilterBar(st.transactions, st.filters)
    /\ orphans' = orphans + (IF searchTimeout THEN 1 ELSE 0)
    /\ searchTimeout' = FALSE

\* initApp, on DOMContentLoaded
InitApp ==
    /\ view = "none"
    /\ LET stored == loadTransactions(localStorage)
       IN IF stored # null /\ Len(stored[1].transactions) > 0
          THEN /\ state' = restoreStored(state, stored[1])
               /\ RenderDashboard(state')
               /\ source' = [kind |-> "restore", file |-> "none"]
          ELSE /\ view' = "upload"
               /\ UNCHANGED <<state, controls, searchTimeout, orphans, source>>
    /\ UNCHANGED <<tz, results, ingestVars, calcVars, pageVars, localStorage, reads, toast, events>>

\* a file is dropped on the upload zone or chosen in the file dialog:
\* handleFile up to its await
ChooseFile(f) ==
    /\ view = "upload"
    /\ events < MaxEvents
    /\ f \notin reads
    /\ Cardinality(reads) < MaxReads
    /\ events' = events + 1
    /\ IF ~isValidExcelFile(Files[f])
       THEN /\ toast' = showToast(InvalidTypeMessage, "error")
            /\ UNCHANGED reads
       ELSE /\ reads' = reads \cup {f}
            /\ UNCHANGED toast
    /\ UNCHANGED <<tz, results, ingestVars, calcVars, pageVars, state, localStorage, view, controls, searchTimeout,
                   orphans, source>>

\* the promise of parseExcelFile settles and handleFile runs to its end
FileSettled(f) ==
    /\ f \in reads
    /\ reads' = reads \ {f}
    /\ LET result == results[f]
       IN IF result.status = "rejected"
          THEN /\ toast' = showToast(result.message, "error")
               /\ UNCHANGED <<state, localStorage, view, controls, searchTimeout,
                              orphans, source>>
          ELSE IF noTransactions(result)
          THEN /\ toast' = showToast(NoTransactionsMessage, "error")
               /\ UNCHANGED <<state, localStorage, view, controls, searchTimeout,
                              orphans, source>>
          ELSE /\ state' = handleFileLoaded(state, result)
               /\ localStorage' = saveTransactions(result.transactions)
               /\ toast' = loadedToast(result, Files[f].name)
               /\ RenderDashboard(state')
               /\ source' = [kind |-> "load", file |-> f]
    /\ UNCHANGED <<tz, results, ingestVars, calcVars, pageVars, events>>

\* triggerFilterChange: the values are read from the document
TriggerFilterChange(bar) == state' = handleFilterChange(state, getFilterValues(bar))

\* the user edits the search box: the debounce timer is set anew
TypeSearch(text) ==
    /\ view = "dashboard"
    /\ events < MaxEvents
    /\ text # controls[1].search
    /\ events' = events + 1
    /\ controls' = <<[controls[1] EXCEPT !.search = text]>>
    /\ searchTimeout' = TRUE
    /\ UNCHANGED <<tz, results, ingestVars, calcVars, pageVars, state, localStorage, view, orphans, reads, toast,
                   source>>

\* the debounce timer of the current filter bar fires
SearchTimeoutFires ==
    /\ searchTimeout
    /\ searchTimeout' = FALSE
    /\ TriggerFilterChange(controls)
    /\ UNCHANGED <<tz, results, ingestVars, calcVars, pageVars, localStorage, view, controls, orphans, reads, toast,
                   source, events>>

\* a debounce timer set on an earlier filter bar fires
OrphanTimeoutFires ==
    /\ orphans > 0
    /\ orphans' = orphans - 1
    /\ TriggerFilterChange(controls)
    /\ UNCHANGED <<tz, results, ingestVars, calcVars, pageVars, localStorage, view, controls, searchTimeout, reads,
                   toast, source, events>>

\* a change event of a select or a date input
ChangeControl(bar) ==
    /\ view = "dashboard"
    /\ events < MaxEvents
    /\ bar # controls
    /\ events' = events + 1
    /\ controls' = bar
    /\ TriggerFilterChange(bar)
    /\ UNCHANGED <<tz, results, ingestVars, calcVars, pageVars, localStorage, view, searchTimeout, orphans, reads,
                   toast, source>>

ChangeCategory(category) ==
    /\ controls # null
    /\ category \in controls[1].options \cup {<<"a","l","l">>}
    /\ ChangeControl(<<[controls[1] EXCEPT !.category = category]>>)

ChangeType(type) ==
    /\ controls # null
    /\ ChangeControl(<<[controls[1] EXCEPT !.type = type]>>)

ChangeDateFrom(date) ==
    /\ controls # null
    /\ ChangeControl(<<[controls[1] EXCEPT !.dateFrom = date]>>)

ChangeDateTo(date) ==
    /\ controls # null
    /\ ChangeControl(<<[controls[1] EXCEPT !.dateTo = date]>>)

\* the Reset button
Reset ==
    /\ view = "dashboard"
    /\ events < MaxEvents
    /\ events' = events + 1
    /\ controls' = resetControls(controls)
    /\ TriggerFilterChange(controls')
    /\ UNCHANGED <<tz, results, ingestVars, calcVars, pageVars, localStorage, view, searchTimeout, orphans, reads,
                   toast, source>>

\* the Clear Data button: handleClearData
ClearData ==
    /\ view = "dashboard"
    /\ events < MaxEvents
    /\ events' = events + 1
    /\ state' = handleClearData(state)
    /\ localStorage' = clearTransactions
    /\ view' = "upload"
    /\ toast' = showToast("All data cleared", "success")
    /\ source' = [kind |-> "clear", file |-> "none"]
    /\ UNCHANGED <<tz, results, ingestVars, calcVars, pageVars, controls, searchTimeout, orphans, reads>>

\* the page is loaded again: the module state is fresh, the storage is kept
Reload ==
    /\ view # "none"
    /\ events < MaxEvents
    /\ events' = events + 1
    /\ state' = initialState
    /\ view' = "none"
    /\ controls' = null
    /\ searchTimeout' = FALSE
    /\ orphans' = 0
    /\ reads' = {}
    /\ toast' = noToast
    /\ source' = noSource
    /\ UNCHANGED <<tz, results, ingestVars, calcVars, pageVars, localStorage>>

Next ==
    \/ InitApp
    \/ \E f \in FileIds : ChooseFile(f)
    \/ \E f \in FileIds : FileSettled(f)
    \/ \E text \in SearchTexts : TypeSearch(text)
    \/ SearchTimeoutFires
    \/ OrphanTimeoutFires
    \/ \E category \in CategoryOptions : ChangeCategory(category)
    \/ \E type \in TypeOptions : ChangeType(type)
    \/ \E date \in DateInputs : ChangeDateFrom(date)
    \/ \E date \in DateInputs : ChangeDateTo(date)
    \/ Reset
    \/ ClearData
    \/ Reload

Spec == Init /\ [][Next]_vars

----------------------------------------------------------------------------
(* The aggregations of calculations.js, called on record lists *)

MaxRecords == 3

\* records as the pipeline and the stored item hold them, and two whose type
\* is written in another letter case
RecordPool(zone) ==
    {[id |-> 0, date |-> newDateLocal(zone, 2026, 0, 15), description |-> <<"S","a","l","a","r","y">>,
      category |-> <<"S","a","l","a","r","y">>, amount |-> 100000, type |-> <<"I","n","c","o","m","e">>],
     [id |-> 0, date |-> daysFromCivil(2026, 1, 2) * 24, description |-> <<"G","r","o","c","e","r","y"," ","S","t","o","r","e">>,
      category |-> <<"F","o","o","d"," ","&"," ","D","i","n","i","n","g">>, amount |-> 40000, type |-> <<"E","x","p","e","n","s","e">>],
     [id |-> 0, date |-> daysFromCivil(2026, 2, 1) * 24, description |-> <<"R","e","n","t">>,
      category |-> <<"H","o","u","s","i","n","g">>, amount |-> 90000, type |-> <<"E","x","p","e","n","s","e">>],
     [id |-> 0, date |-> newDateLocal(zone, 2025, 11, 20), description |-> <<"B","o","n","u","s">>,
      category |-> <<"S","a","l","a","r","y">>, amount |-> 25000, type |-> <<"I","N","C","O","M","E">>],
     [id |-> 0, date |-> newDateLocal(zone, 2026, 1, 10), description |-> <<"C","o","f","f","e","e">>,
      category |-> <<"F","o","o","d"," ","&"," ","D","i","n","i","n","g">>, amount |-> 1250, type |-> <<"e","X","p","e","n","s","e">>],
     [id |-> 0, date |-> newDateLocal(zone, 2026, 0, 20), description |-> <<"L","e","g","o"," ","s","e","t">>,
      category |-> <<"c","o","n","s","t","r","u","c","t","o","r">>, amount |-> 12550, type |-> <<"E","x","p","e","n","s","e">>]}

\* transaction.id = i: the ids of a list are distinct
RecordLists(zone) ==
    {[k \in 1..Len(ts) |-> [ts[k] EXCEPT !.id = k]] :
        ts \in SeqsUpTo(RecordPool(zone), MaxRecords)}

\* the type argument of calculateByCategory
TypeArguments == {<<"a","l","l">>, <<"i","n","c","o","m","e">>, <<"e","x","p","e","n","s","e">>, <<"E","x","p","e","n","s","e">>}

InitCalc ==
    /\ tz \in TimeZones
    /\ IngestIdle
    /\ PageIdle
    /\ state = initialState
    /\ localStorage = null
    /\ view = "none"
    /\ controls = null
    /\ searchTimeout = FALSE
    /\ orphans = 0
    /\ reads = {}
    /\ toast = noToast
    /\ source = noSource
    /\ events = 0
    /\ results = <<>>
    /\ records \in RecordLists(tz)
    /\ criteria = defaultFilters
    /\ report = noReport

GetSummaryData ==
    /\ report = noReport
    /\ report' = [fn |-> "getSummaryData", value |-> getSummaryData(records)]
    /\ UNCHANGED <<tz, ingestVars, appVars, pageVars, records, criteria>>

CalculateByCategory(type) ==
    /\ report = noReport
    /\ report' = [fn |-> "calculateByCategory", type |-> type,
                  value |-> calculateByCategory(records, type)]
    /\ UNCHANGED <<tz, ingestVars, appVars, pageVars, records, criteria>>

CalculateByMonth ==
    /\ report = noReport
    /\ report' = [fn |-> "calculateByMonth", value |-> calculateByMonth(tz, records)]
    /\ UNCHANGED <<tz, ingestVars, appVars, pageVars, records, criteria>>

NextCalc ==
    \/ GetSummaryData
    \/ \E type \in TypeArguments : CalculateByCategory(type)
    \/ CalculateByMonth

SpecCalc == InitCalc /\ [][NextCalc]_vars

----------------------------------------------------------------------------
(* applyFilters, called on record lists and filters *)

MaxFiltered == 2

\* the filters the filter bar can hold
FilterCriteria ==
    {[search |-> s, category |-> c, type |-> t, dateFrom |-> from, dateTo |-> to] :
        s \in {<<>>, <<"G","R","O">>}, c \in {<<"a","l","l">>, <<"F","o","o","d"," ","&"," ","D","i","n","i","n","g">>},
        t \in {<<"a","l","l">>, <<"e","x","p","e","n","s","e">>},
        from \in {<<>>, <<"2","0","2","6","-","0","1","-","0","2">>}, to \in {<<>>, <<"2","0","2","6","-","0","1","-","1","5">>}}

\* the lists of up to MaxFiltered records; one more record is of the category
\* named like the first option of the category select
FilterLists(zone) ==
    {[k \in 1..Len(ts) |-> [ts[k] EXCEPT !.id = k]] :
        ts \in SeqsUpTo(RecordPool(zone)
                          \cup {[id |-> 0, date |-> daysFromCivil(2026, 1, 9) * 24,
                                  description |-> <<"T","a","x","i">>, category |-> <<"a","l","l">>,
                                  amount |-> 3000, type |-> <<"E","x","p","e","n","s","e">>]},
                        MaxFiltered)}

InitFilter ==
    /\ tz \in TimeZones
    /\ IngestIdle
    /\ PageIdle
    /\ state = initialState
    /\ localStorage = null
    /\ view = "none"
    /\ controls = null
    /\ searchTimeout = FALSE
    /\ orphans = 0
    /\ reads = {}
    /\ toast = noToast
    /\ source = noSource
    /\ events = 0
    /\ results = <<>>
    /\ records \in FilterLists(tz)
    /\ criteria = defaultFilters
    /\ report = noReport

\* applyFilters on a state that holds the records and the filters
ApplyFilters(filters) ==
    /\ report = noReport
    /\ criteria' = filters
    /\ report' = [fn |-> "applyFilters",
                  value |-> applyFilters([initialState EXCEPT
                                            !.transactions = records,
                                            !.filters = filters]).filteredTransactions]
    /\ UNCHANGED <<tz, ingestVars, appVars, pageVars, records>>

NextFilter == \E filters \in FilterCriteria : ApplyFilters(filters)

SpecFilter == InitFilter /\ [][NextFilter]_vars

----------------------------------------------------------------------------
(* FileUpload.js: one call of handleFile after the other, step by step *)

MaxUploads == 2

\* the most arguments a call takes in the engine the page runs in, scaled to
\* the sheets below: a sheet holds up to 1,048,576 rows, more than any engine
\* takes
MaxArguments == 2

RentRow ==
    <<Text(<<"2","0","2","6","-","0","2","-","0","1">>), Text(<<"R","e","n","t">>), Text(<<"H","o","u","s","i","n","g">>), Num(-90000),
      Text(<<"E","x","p","e","n","s","e">>)>>

\* the files of the application and a workbook of more valid rows than a call
\* takes arguments
UploadFiles ==
    [f \in FileIds \cup {"ledger"} |->
        IF f = "ledger"
        THEN [name |-> <<"l","e","d","g","e","r",".","x","l","s","x">>, type |-> "", content |-> "sheet",
              sheet |-> <<TemplateHeaders, GroceryRow, PositiveExpenseRow, RentRow>>]
        ELSE Files[f]]

\* handleFileLoaded -> renderDashboard -> renderFilterBar -> getDateRange:
\* Math.min(...dates) throws a RangeError when dates holds more elements than
\* a call takes arguments
handleFileLoadedThrows(result) == Len(result.transactions) > MaxArguments

\* the try block of handleFile after the await: the callbacks it makes, the
\* catch block included
callbacksAfterAwait(result) ==
    IF result.status = "rejected" THEN <<"onError">>
    ELSE IF noTransactions(result) THEN <<"onError">>
    ELSE IF handleFileLoadedThrows(result) THEN <<"onFileLoaded", "onError">>
    ELSE <<"onFileLoaded">>

InitUpload ==
    /\ tz \in TimeZones
    /\ IngestIdle
    /\ CalcIdle
    /\ state = initialState
    /\ localStorage = null
    /\ view = "upload"
    /\ controls = null
    /\ searchTimeout = FALSE
    /\ orphans = 0
    /\ reads = {}
    /\ toast = noToast
    /\ source = noSource
    /\ events = 0
    /\ results = settleAll(tz)
    /\ upload = noUpload
    /\ table = initialTable

\* handleFile up to its await
HandleFile(f) ==
    /\ upload.pc \in {"idle", "done"}
    /\ upload.attempt < MaxUploads
    /\ upload' = IF ~isValidExcelFile(UploadFiles[f])
                 THEN [pc |-> "done", file |-> f, attempt |-> upload.attempt + 1,
                       settled |-> 0, calls |-> <<"onError">>]
                 ELSE [pc |-> "reading", file |-> f, attempt |-> upload.attempt + 1,
                       settled |-> 0, calls |-> <<>>]
    /\ UNCHANGED <<tz, ingestVars, appVars, calcVars, table>>

\* the FileReader fires load or error: reader.onload or reader.onerror calls
\* resolve or reject
ReaderSettles ==
    /\ upload.pc = "reading"
    /\ upload' = [upload EXCEPT !.pc = "settled", !.settled = @ + 1]
    /\ UNCHANGED <<tz, ingestVars, appVars, calcVars, table>>

\* handleFile from its await to its end
HandleFileResumes ==
    /\ upload.pc = "settled"
    /\ upload' = [upload EXCEPT
                    !.pc = "done",
                    !.calls = callbacksAfterAwait(settle(tz, UploadFiles[upload.file]))]
    /\ UNCHANGED <<tz, ingestVars, appVars, calcVars, table>>

NextUpload ==
    \/ \E f \in DOMAIN UploadFiles : HandleFile(f)
    \/ ReaderSettles
    \/ HandleFileResumes

SpecUpload == InitUpload /\ [][NextUpload]_vars

----------------------------------------------------------------------------
(* TransactionTable.js: the table, its sort headers and its pagination *)

MaxItems == 25

PageSizes == {10, 25, 50, 100}

SortColumns == {"date", "description", "category", "amount"}

\* Math.ceil(length / pageSize)
totalPages(length, pageSize) == (length + pageSize - 1) \div pageSize

\* renderTransactionTable that keeps the page it is on
renderTransactionTableKeepingPage(t, length, resetPage) ==
    [t EXCEPT !.rendered = TRUE, !.length = length]

\* renderTransactionTable: the page is reset on request, the table is written
\* into its container and the listeners close over the list it was given
renderTransactionTable(t, length, resetPage) ==
    [t EXCEPT !.currentPage = IF resetPage THEN 1 ELSE @,
              !.rendered = TRUE, !.length = length]

\* renderPagination: the page numbers that get a button
pages(current, total) ==
    {1} \cup {p \in 2..(total - 1) : p >= current - 1 /\ p <= current + 1}
        \cup {total}

\* the values of data-page on the buttons of the rendered table; there are
\* none when all rows are on one page
paginationBtns(t) ==
    IF totalPages(t.length, t.pageSize) > 1
    THEN {<<"p","r","e","v">>, <<"n","e","x","t">>}
         \cup {natChars(p) : p \in pages(t.currentPage, totalPages(t.length, t.pageSize))}
    ELSE {}

\* the click listener of a pagination button
clickPage(t, page) ==
    IF page = <<"p","r","e","v">> /\ t.currentPage > 1 THEN [t EXCEPT !.currentPage = @ - 1]
    ELSE IF page = <<"n","e","x","t">> /\ t.currentPage < totalPages(t.length, t.pageSize)
    THEN [t EXCEPT !.currentPage = @ + 1]
    ELSE IF page # <<"p","r","e","v">> /\ page # <<"n","e","x","t">>
    THEN [t EXCEPT !.currentPage = parseInt(page)]
    ELSE t

\* the click listener of a sortable header
clickHeader(t, column) ==
    IF t.sortColumn = column
    THEN [t EXCEPT !.sortDirection = IF @ = "asc" THEN "desc" ELSE "asc"]
    ELSE [t EXCEPT !.sortColumn = column, !.sortDirection = "desc"]

\* resetTableState; handleClearData then hides the dashboard
resetTableState(t) ==
    [t EXCEPT !.currentPage = 1, !.sortColumn = "date", !.sortDirection = "desc",
              !.rendered = FALSE]

InitTable ==
    /\ tz \in TimeZones
    /\ IngestIdle
    /\ CalcIdle
    /\ state = initialState
    /\ localStorage = null
    /\ view = "none"
    /\ controls = null
    /\ searchTimeout = FALSE
    /\ orphans = 0
    /\ reads = {}
    /\ toast = noToast
    /\ source = noSource
    /\ events = 0
    /\ results = settleAll(tz)
    /\ upload = noUpload
    /\ table = initialTable

\* renderDashboard and applyFilters: renderTransactionTable(list, { resetPage:
\* true }) with a list of length records
RenderFiltered(length) ==
    /\ table' = renderTransactionTable(table, length, TRUE)
    /\ UNCHANGED <<tz, ingestVars, appVars, calcVars, upload>>

ClickSortHeader(column) ==
    /\ table.rendered
    /\ table' = renderTransactionTable(clickHeader(table, column), table.length, FALSE)
    /\ UNCHANGED <<tz, ingestVars, appVars, calcVars, upload>>

ChangePageSize(size) ==
    /\ table.rendered
    /\ table' = renderTransactionTable([table EXCEPT !.pageSize = size, !.currentPage = 1],
                                       table.length, FALSE)
    /\ UNCHANGED <<tz, ingestVars, appVars, calcVars, upload>>

\* a click on a pagination button, a disabled one included
ClickPaginationBtn(page) ==
    /\ table.rendered
    /\ page \in paginationBtns(table)
    /\ table' = renderTransactionTable(clickPage(table, page), table.length, FALSE)
    /\ UNCHANGED <<tz, ingestVars, appVars, calcVars, upload>>

\* handleClearData
ResetTableState ==
    /\ table.rendered
    /\ table' = resetTableState(table)
    /\ UNCHANGED <<tz, ingestVars, appVars, calcVars, upload>>

NextTable ==
    \/ \E length \in 0..MaxItems : RenderFiltered(length)
    \/ \E column \in SortColumns : ClickSortHeader(column)
    \/ \E size \in PageSizes : ChangePageSize(size)
    \/ \E page \in paginationBtns(table) : ClickPaginationBtn(page)
    \/ ResetTableState

SpecTable == InitTable /\ [][NextTable]_vars

----------------------------------------------------------------------------
(* handleExport, called on a dashboard that shows filtered records *)

MaxExported == 2

RECURSIVE reduceValues(_, _)
\* Object.values(categoryData).reduce((sum, val) => sum + val, sum)
reduceValues(sum, categoryData) ==
    IF categoryData = <<>> THEN sum
    ELSE reduceValues(plus(sum, Head(categoryData).value), Tail(categoryData))

RECURSIVE insertByAmount(_, _)
\* entry placed before the first entry of sorted that (a, b) => b.amount -
\* a.amount puts after it; a difference that is NaN counts as 0
insertByAmount(sorted, entry) ==
    IF sorted = <<>> THEN <<entry>>
    ELSE IF /\ entry.amount.k = "number" /\ Head(sorted).amount.k = "number"
            /\ entry.amount.n > Head(sorted).amount.n
    THEN <<entry>> \o sorted
    ELSE <<Head(sorted)>> \o insertByAmount(Tail(sorted), entry)

RECURSIVE sortByAmount(_)
sortByAmount(entries) ==
    IF entries = <<>> THEN <<>>
    ELSE insertByAmount(sortByAmount(SubSeq(entries, 1, Len(entries) - 1)),
                        entries[Len(entries)])

\* Charts.js: getCategoryData; total > 0 is false of a total that is a text
getCategoryData(ts) ==
    LET categoryData == calculateByCategory(ts, <<"e","x","p","e","n","s","e">>)
        total == reduceValues(Num(0), categoryData)
    IN sortByAmount(
           [k \in 1..Len(categoryData) |->
               [category |-> categoryData[k].key,
                amount |-> categoryData[k].value,
                percentage |-> IF total.k = "number" /\ total.n > 0
                               THEN divide(categoryData[k].value.n * 100, total.n)
                               ELSE Quotient(0, 1)]])

\* an export of the whole record set
handleExportOfAll(st, zone, format, shown, exported) ==
    IF format = "excel"
    THEN [toast |-> showToast("Report exported successfully", "success"),
          report |-> [fn |-> "exportSummaryReport",
                      value |-> [summary |-> getSummaryData(st.transactions),
                                 categoryData |-> getCategoryData(st.transactions),
                                 monthlyData |-> calculateByMonth(zone, st.transactions)]]]
    ELSE [toast |-> shown, report |-> exported]

\* handleExport: the toast it leaves and the report it hands to
\* exportSummaryReport, given the toast shown and the report exported before
handleExport(st, zone, format, shown, exported) ==
    IF Len(st.filteredTransactions) = 0
    THEN [toast |-> showToast("No data to export", "error"), report |-> exported]
    ELSE IF format = "excel"
    THEN [toast |-> showToast("Report exported successfully", "success"),
          report |-> [fn |-> "exportSummaryReport",
                      value |-> [summary |-> getSummaryData(st.filteredTransactions),
                                 categoryData |-> getCategoryData(st.filteredTransactions),
                                 monthlyData |-> calculateByMonth(zone, st.filteredTransactions)]]]
    ELSE [toast |-> shown, report |-> exported]

\* a dashboard that shows what the filters leave of a record list
InitExport ==
    /\ tz \in TimeZones
    /\ IngestIdle
    /\ PageIdle
    /\ records = <<>>
    /\ criteria = defaultFilters
    /\ report = noReport
    /\ \E ts \in {l \in RecordLists(tz) : Len(l) <= MaxExported}, filters \in FilterCriteria :
          state = applyFilters([transactions |-> ts, filteredTransactions |-> ts,
                                filters |-> filters, isLoaded |-> TRUE])
    /\ localStorage = saveTransactions(state.transactions)
    /\ view = "dashboard"
    /\ controls = renderFilterBar(state.transactions, state.filters)
    /\ searchTimeout = FALSE
    /\ orphans = 0
    /\ reads = {}
    /\ toast = noToast
    /\ source = noSource
    /\ events = 0
    /\ results = <<>>

\* a click on the Export button of the header: onExport('excel')
ClickExport ==
    /\ view = "dashboard"
    /\ LET done == handleExport(state, tz, "excel", toast, report)
       IN toast' = done.toast /\ report' = done.report
    /\ UNCHANGED <<tz, ingestVars, pageVars, records, criteria, state, localStorage, view,
                   controls, searchTimeout, orphans, reads, source, events, results>>

NextExport == ClickExport

SpecExport == InitExport /\ [][NextExport]_vars

----------------------------------------------------------------------------
(* Properties of the ingestion pipeline (checked under SpecIngest; those of   *)
(* the column mapper, C5 and C6, under SpecMap)                             *)

\* the data rows (0-based row numbers) the row loop has already handled
processed == IF pc \in {"rows", "resolved"} THEN 1..(i - 1) ELSE {}

dataRow(r) == rawData[r + 1]

\* positions in the record list of the records made from row r
recordsOf(r) == {k \in 1..Len(transactions) : transactions[k].id = r}

\* the number an amount cell holds before Math.abs, 0 when it holds none
rawAmount(cell) ==
    IF cell.k = "number" THEN cell.n
    ELSE IF cell.k = "string" /\ parseFloat(cleanAmount(cell.s)) # null
         THEN parseFloat(cleanAmount(cell.s))[1]
    ELSE 0

\* the amount column is unmapped, the cell is missing or blank, its cleaned
\* text is no number, or the value is exactly 0
noAmount(row) ==
    \/ columnMap.amount = -1
    \/ At(row, columnMap.amount) = undefined
    \/ LET cell == At(row, columnMap.amount)
       IN \/ cell.k = "string" /\ trim(cell.s) = <<>>
          \/ cell.k = "string" /\ parseFloat(cleanAmount(cell.s)) = null
          \/ rawAmount(cell) = 0

\* C1: every record of an ingestion pass has amount > 0; a row whose amount
\* column is unmapped, whose amount cell is missing, blank, not a number or
\* exactly 0 yields no record; otherwise the stored amount is the absolute
\* value of the parsed number.
C1_AmountPositive ==
    /\ \A k \in 1..Len(transactions) : transactions[k].amount > 0
    /\ \A k \in 1..Len(outcome.transactions) : outcome.transactions[k].amount > 0
    /\ \A r \in processed :
          /\ noAmount(dataRow(r)) => recordsOf(r) = {}
          /\ \A k \in recordsOf(r) :
                transactions[k].amount = Abs(rawAmount(At(dataRow(r), columnMap.amount)))

\* C1 witness: a pass has resolved in which a zero-amount row was dropped and
\* a row with a negative amount was stored with its absolute value
C1_Witness ==
    /\ pc = "resolved"
    /\ \E r \in processed : Len(dataRow(r)) > 0 /\ noAmount(dataRow(r)) /\ recordsOf(r) = {}
    /\ \E r \in processed : \E k \in recordsOf(r) :
          /\ rawAmount(At(dataRow(r), columnMap.amount)) < 0
          /\ outcome.transactions[k].amount = -rawAmount(At(dataRow(r), columnMap.amount))

\* a text that denotes a real calendar day in one of the accepted layouts
validDateText(s) ==
    \E f \in 1..Len(formats) :
        LET m == match(s, formats[f])
        IN /\ m # <<>>
           /\ LET y == IF formats[f][2] THEN parseInt(m[1]) ELSE parseInt(m[3])
                  mo == IF formats[f][2] THEN parseInt(m[2]) ELSE parseInt(m[1])
                  d == IF formats[f][2] THEN parseInt(m[3]) ELSE parseInt(m[2])
              IN mo \in 1..12 /\ d \in 1..daysInMonth(y, mo)

denotesDate(cell) ==
    \/ cell.k = "Date"
    \/ cell.k = "string" /\ validDateText(cell.s)

\* C2: every record carries a valid calendar date; a row whose date column
\* is unmapped, whose date cell is missing or whose date cell does not denote
\* a valid date yields no record.
C2_ValidDateRequired ==
    \A r \in processed :
        (\/ columnMap.date = -1
         \/ At(dataRow(r), columnMap.date) = undefined
         \/ ~denotesDate(At(dataRow(r), columnMap.date)))
        => recordsOf(r) = {}

\* the type the text of a type cell stands for
typeByText(cell) ==
    LET typeVal == toLowerCase(String(cell))
    IN IF includes(typeVal, <<"i","n","c","o","m","e">>) \/ includes(typeVal, <<"i","n">>)
          \/ includes(typeVal, <<"c","r","e","d","i","t">>)
       THEN <<"I","n","c","o","m","e">>
       ELSE <<"E","x","p","e","n","s","e">>

\* the amount cell with the sign of its number reversed
negated(cell) ==
    IF cell.k = "number" THEN Num(-cell.n)
    ELSE IF rawAmount(cell) < 0
         THEN Text(SelectSeq(cell.s, LAMBDA c : c # "-"))
         ELSE Text(<<"-">> \o cell.s)

\* the row with the sign of its amount reversed
flipAmount(row) == [row EXCEPT ![columnMap.amount + 1] = negated(row[columnMap.amount + 1])]

typeOfRow(row) == parseRow(tz, row, columnMap)[1].type

\* C3 (as stated): every type is Income or Expense, and whenever a type
\* column is mapped the type of every row, a row without a type cell
\* included, does not depend on the sign of the amount and is the one its
\* type cell's text stands for.
C3_TypeNeverFromSignWhenMapped ==
    /\ \A k \in 1..Len(transactions) : transactions[k].type \in {<<"I","n","c","o","m","e">>, <<"E","x","p","e","n","s","e">>}
    /\ columnMap.type # -1 =>
          \A r \in processed : \A k \in recordsOf(r) :
              /\ typeOfRow(flipAmount(dataRow(r))) = transactions[k].type
              /\ At(dataRow(r), columnMap.type) # undefined
                    => transactions[k].type = typeByText(At(dataRow(r), columnMap.type))

\* C3 (amended): every type is Income or Expense; when the type column is
\* mapped and the row has a type cell, the type is the one the cell's text
\* stands for, whatever the sign of the amount; when the type column is
\* unmapped or the row has no type cell, the sign of the raw amount decides.
C3_TypeFromCellWhenPresent ==
    /\ \A k \in 1..Len(transactions) : transactions[k].type \in {<<"I","n","c","o","m","e">>, <<"E","x","p","e","n","s","e">>}
    /\ \A r \in processed : \A k \in recordsOf(r) :
          IF columnMap.type # -1 /\ At(dataRow(r), columnMap.type) # undefined
          THEN /\ transactions[k].type = typeByText(At(dataRow(r), columnMap.type))
               /\ typeOfRow(flipAmount(dataRow(r))) = transactions[k].type
          ELSE transactions[k].type =
                  (IF rawAmount(At(dataRow(r), columnMap.amount)) > 0
                   THEN <<"I","n","c","o","m","e">> ELSE <<"E","x","p","e","n","s","e">>)

\* C3 witness: with a type column mapped, a row whose type cell reads Expense
\* and whose amount is positive was stored as an Expense
C3_Witness ==
    /\ pc = "resolved"
    /\ columnMap.type # -1
    /\ \E r \in processed : \E k \in recordsOf(r) :
          /\ At(dataRow(r), columnMap.type) = Text(<<"E","x","p","e","n","s","e">>)
          /\ rawAmount(At(dataRow(r), columnMap.amount)) > 0
          /\ outcome.transactions[k].type = <<"E","x","p","e","n","s","e">>

templateMap == [date |-> 0, description |-> 1, category |-> 2, amount |-> 3, type |-> 4]

\* C4: on the sample template header row Date, Description, Category, Amount,
\* Type all five fields are detected, type at column 4, and every accepted
\* row's type is the Income/Expense literal of its Type cell.
C4_TemplateTypeColumn ==
    (/\ pc \in {"rows", "resolved"}
     /\ rawData[1] = TemplateHeaders)
    => /\ columnMap = templateMap
       /\ \A r \in processed : \A k \in recordsOf(r) :
             /\ At(dataRow(r), 4) = Text(<<"I","n","c","o","m","e">>) => transactions[k].type = <<"I","n","c","o","m","e">>
             /\ At(dataRow(r), 4) = Text(<<"E","x","p","e","n","s","e">>) => transactions[k].type = <<"E","x","p","e","n","s","e">>

\* the fields an alias of which occurs in a header
matchingFields(header) == {f \in FieldSet : someAlias(f, toLowerCase(header))}

fieldRank(f) == CHOOSE k \in 1..Len(Fields) : Fields[k] = f

\* C5: no two mapped fields share a column index, and a header that holds
\* aliases of several fields is assigned only to the first of them in the
\* order date, description, category, amount, type.
C5_OneFieldPerHeader ==
    /\ \A f, g \in FieldSet :
          (f # g /\ columnMap[f] # -1) => columnMap[f] # columnMap[g]
    /\ \A f \in FieldSet :
          columnMap[f] # -1 =>
              \A g \in matchingFields(headers[columnMap[f] + 1]) :
                  fieldRank(f) <= fieldRank(g)

\* the index of the first of the headers hs that holds an alias of f, or -1
firstMatch(f, hs) ==
    LET at == {j \in 1..Len(hs) : someAlias(f, toLowerCase(hs[j]))}
    IN IF at = {} THEN -1 ELSE (CHOOSE j \in at : \A o \in at : j <= o) - 1

\* C6: mapColumns is first-match-wins and total: after any number of headers
\* scanned each field holds the index of the first scanned header with one of
\* its aliases, or -1 when there is none; an index once chosen is never
\* changed by a later header; and for every header list, the empty one
\* included, the scan ends with a ColumnMap over all of it.
C6_FirstMatchWins ==
    [][/\ \A f \in FieldSet : columnMap[f] # -1 => columnMap'[f] = columnMap[f]
       /\ index' \in 0..Len(headers)
       /\ columnMap' \in [FieldSet -> -1..(Len(headers) - 1)]
       /\ \A f \in FieldSet : columnMap'[f] = firstMatch(f, SubSeq(headers, 1, index'))
       /\ pc' = "mapped" => index' = Len(headers) /\ columnMap' = mapColumns(headers)]_vars

\* C6 witness: the scan has ended with a field mapped to an earlier header
\* although a later header holds one of its aliases too, and with another
\* field left at -1
C6_Witness ==
    /\ pc = "mapped"
    /\ \E f \in FieldSet : \E j \in 1..Len(headers) :
          /\ columnMap[f] # -1
          /\ columnMap[f] < j - 1
          /\ f \in matchingFields(headers[j])
    /\ \E g \in FieldSet : columnMap[g] = -1

\* the data rows that pass normalization on their own
passing ==
    {r \in 1..(Len(rawData) - 1) :
        /\ Len(dataRow(r)) > 0
        /\ parseRow(tz, dataRow(r), columnMap) # null}

\* C7: for a sheet with at least one data row the pass resolves with exactly
\* the data rows that pass normalization on their own, in sheet order, each
\* with its row number in the sheet as id; ids are strictly increasing; a
\* rejected row neither aborts the pass nor changes another row's record.
C7_RecordsAreThePassingRows ==
    /\ Len(rawData) >= 2 => pc # "rejected"
    /\ pc = "resolved" =>
          LET out == outcome.transactions
          IN /\ i = Len(rawData)
             /\ Len(out) = Cardinality(passing)
             /\ \A k \in 1..Len(out) :
                   /\ out[k].id \in passing
                   /\ out[k] = withId(parseRow(tz, dataRow(out[k].id), columnMap)[1],
                                      out[k].id)
             /\ \A k, l \in 1..Len(out) : k < l => out[k].id < out[l].id

\* C7 witness: a pass over three data rows has resolved with the records of
\* rows 1 and 3, the row between them rejected
C7_Witness ==
    /\ pc = "resolved"
    /\ Len(rawData) = 4
    /\ Len(dataRow(2)) > 0
    /\ Len(outcome.transactions) = 2
    /\ outcome.transactions[1].id = 1
    /\ outcome.transactions[2].id = 3

\* C8: an entirely empty data row is not counted as rejected: totalRows
\* minus parsedRows is the number of non-empty data rows that failed
\* normalization.
C8_EmptyRowsNotCounted ==
    pc = "resolved" =>
        outcome.totalRows - outcome.parsedRows
            = Cardinality({r \in 1..(Len(rawData) - 1) :
                              Len(dataRow(r)) > 0 /\ r \notin passing})

\* C9: a sheet with fewer than 2 rows is rejected with the empty-sheet error,
\* produces no result, and no column mapping or row normalization is done for
\* it; a sheet with 2 or more rows is never rejected with that error.
C9_EmptySheetRejected ==
    /\ Len(rawData) < 2 =>
          /\ pc \in {"onload", "rejected"}
          /\ pc = "rejected" => outcome = rejectedWith(EmptySheetMessage)
          /\ outcome.status # "resolved"
          /\ headers = <<>> /\ columnMap = unmapped /\ index = 0
          /\ i = 0 /\ transactions = <<>>
    /\ Len(rawData) >= 2 =>
          /\ pc # "rejected"
          /\ outcome.status # "rejected"

\* C9 witness: a sheet that holds a header row only has been rejected
C9_Witness ==
    /\ pc = "rejected"
    /\ Len(rawData) = 1
    /\ outcome.message = EmptySheetMessage

\* The pass taken row by row and parseExcelFile taken as one step agree.
StepsAgreeWithParseExcelFile ==
    pc \in {"resolved", "rejected"} => outcome = parseExcelFile(tz, rawData)

----------------------------------------------------------------------------
(* Properties of the application (checked under Spec) *)

\* the record list the event named by source produced
sourceRecords ==
    CASE source.kind = "load" -> results[source.file].transactions
      [] source.kind = "restore" -> loadTransactions(localStorage)[1].transactions
      [] source.kind = "clear" -> <<>>
      [] source.kind = "none" -> <<>>

\* C10: the record set is replaced as a whole, never merged: state.transactions
\* is the record list of the file load that completed successfully last, or
\* the stored set restored by initApp, or empty after Clear Data and before
\* any of these; it holds no record of an earlier ingestion.
C10_RecordSetReplaced ==
    /\ state.transactions = sourceRecords
    /\ \A f \in FileIds : \A k \in 1..Len(state.transactions) :
          (source.kind = "load" /\ f # source.file)
          => \A l \in 1..Len(results[f].transactions) :
                results[f].transactions[l] # state.transactions[k]

\* C10 witness: the February file was loaded on top of the January records,
\* after a filter change, and the record set is February's alone
C10_Witness ==
    /\ source = [kind |-> "load", file |-> "february"]
    /\ toast.message = "Loaded"
    /\ state.filters # defaultFilters
    /\ state.transactions = results["february"].transactions
    /\ Len(state.transactions) = 1

\* the message a fatal condition of the ingestion of file f is reported with,
\* "" when the ingestion of f succeeds
fatalMessage(f) ==
    IF Files[f].content = "unreadable" THEN ReadFailedMessage
    ELSE IF Files[f].content = "corrupt" THEN ParseFailedMessage
    ELSE IF Len(Files[f].sheet) < 2 THEN EmptySheetMessage
    ELSE IF results[f].status = "resolved" /\ results[f].parsedRows = 0
         THEN NoTransactionsMessage
    ELSE ""

\* the step in which the upload of f ends
uploadEnds(f) == f \in reads /\ f \notin reads' /\ view' # "none"

\* C11: an upload that ends in a fatal condition (unreadable bytes, fewer than
\* 2 rows, no valid transaction) reports the condition's message once to the
\* error callback, is not started again, and leaves state.transactions,
\* state.filteredTransactions, state.filters, state.isLoaded and the stored
\* data as they were.
C11_FatalLeavesStateUnchanged ==
    [][\A f \in FileIds :
          (uploadEnds(f) /\ fatalMessage(f) # "")
          => /\ toast' = showToast(fatalMessage(f), "error")
             /\ state' = state
             /\ localStorage' = localStorage
             /\ view' = view
             /\ reads' = reads \ {f}]_vars

\* C11 witness: with January's records on the dashboard, the upload of the
\* file without a valid row has just failed
C11_Witness ==
    /\ toast = showToast(NoTransactionsMessage, "error")
    /\ "noValidRow" \notin reads
    /\ source = [kind |-> "load", file |-> "january"]
    /\ state.isLoaded
    /\ localStorage = saveTransactions(results["january"].transactions)

\* the name ends with the extension, letter case apart
hasExtension(name, extension) ==
    /\ Len(name) >= Len(extension)
    /\ toLowerCase(SubSeq(name, Len(name) - Len(extension) + 1, Len(name))) = extension

\* the MIME type is in the valid list or the extension is .xlsx, .xls or .xlsm
recognized(file) ==
    \/ file.type \in validTypes
    \/ \E extension \in {<<".","x","l","s","x">>, <<".","x","l","s">>, <<".","x","l","s","m">>} : hasExtension(file.name, extension)

\* C12: a chosen file is accepted for parsing (its read is started) iff its
\* MIME type is in the valid list or its extension is .xlsx, .xls or .xlsm;
\* any other file gets the invalid-type error and its read is never started.
C12_AcceptedIffRecognized ==
    [][\A f \in FileIds :
          ChooseFile(f)
          => IF recognized(Files[f])
             THEN reads' = reads \cup {f} /\ toast' = toast
             ELSE reads' = reads /\ toast' = showToast(InvalidTypeMessage, "error")]_vars

\* the two values of RecordType
RecordTypes == {<<"I","n","c","o","m","e">>, <<"E","x","p","e","n","s","e">>}

normalized(ts) == \A k \in 1..Len(ts) : ts[k].type \in RecordTypes /\ ts[k].amount > 0

RECURSIVE amountsAt(_, _)
\* the sum of the amounts of the records at the positions K
amountsAt(ts, K) ==
    IF K = {} THEN 0
    ELSE LET k == CHOOSE k \in K : TRUE
         IN ts[k].amount + amountsAt(ts, K \ {k})

\* the sum of the amounts of the records of the type
amountsOfType(ts, type) == amountsAt(ts, {k \in 1..Len(ts) : ts[k].type = type})

\* C13: for every record list the balance is the total income minus the
\* total expenses, all three are 0 for the empty list, and each total is the
\* sum of the amounts of the records of its type (Income, Expense).
C13_BalanceIsIncomeMinusExpenses ==
    report.fn = "getSummaryData"
    => LET summary == report.value
       IN /\ summary.balance = summary.totalIncome - summary.totalExpenses
          /\ records = <<>>
             => summary.totalIncome = 0 /\ summary.totalExpenses = 0 /\ summary.balance = 0
          /\ normalized(records)
             => /\ summary.totalIncome = amountsOfType(records, <<"I","n","c","o","m","e">>)
                /\ summary.totalExpenses = amountsOfType(records, <<"E","x","p","e","n","s","e">>)

\* C13 witness: the summary of a list whose expenses exceed its income
C13_Witness ==
    /\ report.fn = "getSummaryData"
    /\ normalized(records)
    /\ report.value.totalIncome = 100000
    /\ report.value.totalExpenses = 130000
    /\ report.value.balance = -30000

\* C14: the savings rate is 0 when the total income is 0, 0 when the total
\* expenses are at least the total income, and (income - expenses) / income
\* otherwise; it is a number from 0 to 1.
C14_SavingsRate ==
    report.fn = "getSummaryData"
    => LET income == report.value.totalIncome
           expenses == report.value.totalExpenses
           rate == report.value.savingsRate
       IN /\ rate.k = "finite" /\ rate.den > 0
          /\ 0 <= rate.num /\ rate.num <= rate.den
          /\ income = 0 => rate.num = 0
          /\ expenses >= income => rate.num = 0
          /\ (income > 0 /\ expenses < income)
             => LET g == income \div rate.den
                IN rate.den * g = income /\ rate.num * g = income - expenses

\* C14 witness: Income 1000 and Expense 400 give 0.6
C14_Witness ==
    /\ report.fn = "getSummaryData"
    /\ report.value.totalIncome = 100000
    /\ report.value.totalExpenses = 40000
    /\ report.value.savingsRate = Quotient(3, 5)

\* the list with every type lower-cased
lowerCased(ts) == [k \in 1..Len(ts) |-> [ts[k] EXCEPT !.type = toLowerCase(@)]]

\* C15: on a record list whose types differ only in letter case from
\* 'income' and 'expense', calculateTotalIncome, calculateTotalExpenses,
\* calculateByCategory and calculateByMonth each return what they return on
\* the list with every type lower-cased.
C15_TypeCaseInsensitive ==
    (\A k \in 1..Len(records) : toLowerCase(records[k].type) \in {<<"i","n","c","o","m","e">>, <<"e","x","p","e","n","s","e">>})
    => /\ report.fn = "getSummaryData"
          => /\ report.value.totalIncome = calculateTotalIncome(lowerCased(records))
             /\ report.value.totalExpenses = calculateTotalExpenses(lowerCased(records))
       /\ report.fn = "calculateByCategory"
          => report.value = calculateByCategory(lowerCased(records), report.type)
       /\ report.fn = "calculateByMonth"
          => report.value = calculateByMonth(tz, lowerCased(records))

\* the positions of the Expense records of the category
expensesOf(ts, category) ==
    {k \in 1..Len(ts) : ts[k].type = <<"E","x","p","e","n","s","e">> /\ ts[k].category = category}

RECURSIVE sumOfValues(_)
\* the values of the object, summed as numbers
sumOfValues(obj) == IF obj = <<>> THEN 0 ELSE Head(obj).value.n + sumOfValues(Tail(obj))

\* C16: for a list of normalized records (type Income or Expense, non-empty
\* category) the categories of calculateByCategory(records, 'Expense') are the
\* categories of the Expense records, each value is the sum of the amounts of
\* the Expense records of its category, and the values sum to
\* calculateTotalExpenses(records).
C16_CategoriesSumToExpenses ==
    (/\ report.fn = "calculateByCategory" /\ report.type = <<"E","x","p","e","n","s","e">>
     /\ normalized(records)
     /\ \A k \in 1..Len(records) : records[k].category # <<>>)
    => /\ {report.value[e].key : e \in 1..Len(report.value)}
          = {records[k].category : k \in {o \in 1..Len(records) :
                                                 records[o].type = <<"E","x","p","e","n","s","e">>}}
       /\ \A e \in 1..Len(report.value) :
             /\ report.value[e].value.k = "number"
             /\ report.value[e].value.n
                = amountsAt(records, expensesOf(records, report.value[e].key))
       /\ sumOfValues(report.value) = calculateTotalExpenses(records)

\* the calendar year and month of the date, as shown in local time: <<y, m>>
yearMonth(t) == SubSeq(civilFromDays((t + tz) \div 24), 1, 2)

\* the zero-padded YYYY-MM text of a year and month
paddedKey(ym) == padStart(ym[1], 4) \o <<"-">> \o padStart(ym[2], 2)

\* the lists that hold the records of ts in any order
reorderings(ts) ==
    {[k \in 1..Len(ts) |-> ts[p[k]]] :
        p \in {q \in [1..Len(ts) -> 1..Len(ts)] :
                  \A a, b \in 1..Len(ts) : q[a] = q[b] => a = b}}

C18_DefaultFiltersKeepAll ==
    [][/\ Reset => /\ state'.filters = defaultFilters
                  /\ state'.filteredTransactions = state.transactions
       /\ (state' # state /\ state'.filters = defaultFilters)
          => state'.filteredTransactions = state'.transactions]_vars

\* C18 witness: the dashboard after Reset (the date inputs, filled when the
\* bar was rendered, are empty) shows both records of the file again
C18_Witness ==
    /\ view = "dashboard"
    /\ events >= 3
    /\ controls = resetControls(controls)
    /\ state.filters = defaultFilters
    /\ Len(state.transactions) = 2
    /\ state.filteredTransactions = state.transactions

\* one stage of applyFilters, with the condition under which it is applied:
\* 1 text search, 2 category equality, 3 type equality, 4 date range
stage(n, ts, f) ==
    CASE n = 1 -> IF f.search # <<>> THEN searchTransactions(ts, f.search) ELSE ts
      [] n = 2 -> IF f.category # <<>> /\ f.category # <<"a","l","l">>
                  THEN filterByCategory(ts, f.category) ELSE ts
      [] n = 3 -> IF f.type # <<>> /\ f.type # <<"a","l","l">>
                  THEN filterByType(ts, f.type) ELSE ts
      [] n = 4 -> IF f.dateFrom # <<>> \/ f.dateTo # <<>>
                  THEN filterByDateRange(
                           ts,
                           IF f.dateFrom # <<>> THEN newDateFromString(f.dateFrom) ELSE <<0>>,
                           IF f.dateTo # <<>> THEN newDateFromString(f.dateTo)
                           ELSE <<LatestDate>>)
                  ELSE ts

\* the four stages applied in the order given
inOrder(order, ts, f) ==
    stage(order[4], stage(order[3], stage(order[2], stage(order[1], ts, f), f), f), f)

\* the orders the four stages can be applied in
stageOrders == {p \in [1..4 -> 1..4] : \A a, b \in 1..4 : p[a] = p[b] => a = b}

\* C19: the four stages applied in any order yield the records applyFilters
\* yields, in the same order, and these form an order-preserving sub-list of
\* the input (the id of a record is its position in the input).
C19_StagesOrderIndependent ==
    report.fn = "applyFilters"
    => /\ \A order \in stageOrders : inOrder(order, records, criteria) = report.value
       /\ \A e \in 1..Len(report.value) :
             /\ report.value[e].id \in 1..Len(records)
             /\ report.value[e] = records[report.value[e].id]
             /\ e > 1 => report.value[e - 1].id < report.value[e].id

\* C19 witness: all four stages are applied and keep the second of two records
C19_Witness ==
    /\ report.fn = "applyFilters"
    /\ criteria.search # <<>> /\ criteria.category # <<"a","l","l">> /\ criteria.type # <<"a","l","l">>
    /\ criteria.dateFrom # <<>> /\ criteria.dateTo # <<>>
    /\ Len(records) = 2
    /\ report.value = <<records[2]>>

\* the day of a YYYY-MM-DD text, counted from 1970-01-01
dayOfInput(s) ==
    daysFromCivil(parseInt(SubSeq(s, 1, 4)), parseInt(SubSeq(s, 6, 7)),
                  parseInt(SubSeq(s, 9, 10)))

\* C20: with dateFrom and dateTo both given (and no other filter), a record
\* is kept iff its calendar date d satisfies dateFrom <= d <= dateTo, whatever
\* its time of day.  The calendar date is taken where the local and the UTC
\* reading of the date value name the same day.
C20_DateRangeInclusive ==
    (/\ report.fn = "applyFilters"
     /\ criteria.dateFrom # <<>> /\ criteria.dateTo # <<>>
     /\ criteria.search = <<>> /\ criteria.category = <<"a","l","l">> /\ criteria.type = <<"a","l","l">>)
    => \A k \in 1..Len(records) :
          LET d == records[k].date \div 24
          IN (records[k].date + tz) \div 24 = d
             => ((\E e \in 1..Len(report.value) : report.value[e] = records[k])
                 <=> (dayOfInput(criteria.dateFrom) <= d /\ d <= dayOfInput(criteria.dateTo)))


----------------------------------------------------------------------------
(* Properties of the sessions, the views and the filters (checked under Spec) *)

\* C21: after a successful file load the stored item holds the loaded record
\* list, after Clear Data the item is gone, and loading the page again keeps
\* the item; initApp on the item of a load opens the dashboard with the
\* records of that load (same fields, same order), and initApp without an
\* item opens the upload view with no records.
C21_StorageKeepsData ==
    [][/\ source'.kind = "load"
          => localStorage' = saveTransactions(results[source'.file].transactions)
       /\ source'.kind = "clear" => localStorage' = null
       /\ Reload => localStorage' = localStorage
       /\ InitApp
          => /\ \A f \in FileIds :
                   (/\ results[f].status = "resolved"
                    /\ Len(results[f].transactions) > 0
                    /\ localStorage = saveTransactions(results[f].transactions))
                   => /\ view' = "dashboard"
                      /\ state'.isLoaded
                      /\ state'.transactions = results[f].transactions
             /\ localStorage = null
                => view' = "upload" /\ state'.transactions = <<>>]_vars

\* C21 witness: a later session shows the two January records restored from
\* the item the load of an earlier session stored
C21_Witness ==
    /\ source.kind = "restore"
    /\ view = "dashboard"
    /\ events >= 2
    /\ Len(results["january"].transactions) = 2
    /\ state.transactions = results["january"].transactions

\* the stored item holds a non-empty transaction list
storedList == localStorage # null /\ localStorage[1].json
              /\ Len(localStorage[1].transactions) > 0

\* C22: the views follow the documented state machine.  initApp opens the
\* dashboard iff the storage holds a non-empty transaction list, else the
\* upload view; the upload view changes to the dashboard only when a file load
\* completes successfully; the dashboard changes to the upload view only
\* through Clear Data; a filter change leaves the view as it is.  In every
\* state isLoaded is true exactly in the dashboard, and then the record list
\* is not empty.
C22_ViewStateMachine ==
    [][/\ state'.isLoaded <=> view' = "dashboard"
       /\ view' = "dashboard" => state'.transactions # <<>>
       /\ view = "none"
          => view' = (IF storedList THEN "dashboard" ELSE "upload")
       /\ (view = "upload" /\ view' # "upload")
          => \/ /\ view' = "dashboard"
                /\ \E f \in reads : /\ results[f].status = "resolved"
                                     /\ state'.transactions = results[f].transactions
             \/ view' = "none" /\ Reload
       /\ (view = "dashboard" /\ view' # "dashboard")
          => \/ view' = "upload" /\ ClearData
             \/ view' = "none" /\ Reload
       /\ (SearchTimeoutFires \/ OrphanTimeoutFires \/ Reset
           \/ \E text \in SearchTexts : TypeSearch(text)
           \/ \E bar \in {controls'} : ChangeControl(bar))
          => view' = view]_vars

\* C22 witness: the upload view reached from the dashboard through Clear Data
C22_Witness ==
    /\ view = "upload"
    /\ source.kind = "clear"
    /\ ~state.isLoaded
    /\ state.transactions = <<>>
    /\ localStorage = null

\* C23: in every reachable state, whatever the interleaving of file-load
\* completions, filter changes, Reset and Clear Data, state.filteredTransactions
\* is what applying state.filters to state.transactions gives.
C23_FilteredMatchesFilters ==
    state.filteredTransactions = applyFilters(state).filteredTransactions

\* C24: on a dashboard whose date inputs hold what renderFilterBar wrote into
\* them (the user never edits them), a change of the search, category or type
\* control yields exactly the records matching the three controls: no record
\* is excluded because of its date.
C24_UntouchedDatesPassThrough ==
    [][(/\ view = "dashboard" /\ view' = "dashboard"
        /\ state.filters = defaultFilters
        /\ controls[1].dateFrom = formatDateForInput(getDateRange(state.transactions).min)
        /\ controls[1].dateTo = formatDateForInput(getDateRange(state.transactions).max)
        /\ controls'[1].dateFrom = controls[1].dateFrom
        /\ controls'[1].dateTo = controls[1].dateTo
        /\ state'.transactions = state.transactions
        /\ state'.filters # state.filters)
       => state'.filteredTransactions
          = filterByType(
                filterByCategory(
                    searchTransactions(state.transactions, state'.filters.search),
                    state'.filters.category),
                state'.filters.type)]_vars

\* C25: whenever state.isLoaded is false, state.filters is the default
\* criteria, also when a search callback scheduled before Clear Data fires
\* after it.
C25_ClearedFiltersStayDefault ==
    ~state.isLoaded => state.filters = defaultFilters

\* C26: each call of handleFile ends with exactly one callback made, onFileLoaded
\* or onError, once and never both, and the promise of parseExcelFile it
\* awaited was settled once.
C26_ExactlyOneCallback ==
    upload.pc = "done"
    => /\ Len(upload.calls) = 1
       /\ isValidExcelFile(UploadFiles[upload.file]) => upload.settled = 1

\* the number of transactions the table displays
displayed == IF table.rendered THEN table.length ELSE 0

lastPage == IF totalPages(displayed, table.pageSize) > 1
            THEN totalPages(displayed, table.pageSize) ELSE 1

\* C27: after any sequence of table operations the current page lies between 1
\* and max(1, ceil(n / pageSize)); prev at page 1 and next at the last page
\* leave it unchanged; a page-size change and a filter change set it to 1.
C27_PageWithinBounds ==
    [][/\ table'.currentPage >= 1
       /\ table'.currentPage
            <= (IF table'.rendered /\ totalPages(table'.length, table'.pageSize) > 1
                THEN totalPages(table'.length, table'.pageSize) ELSE 1)
       /\ (ClickPaginationBtn(<<"p","r","e","v">>) /\ table.currentPage = 1)
            => table'.currentPage = 1
       /\ (ClickPaginationBtn(<<"n","e","x","t">>) /\ table.currentPage = lastPage)
            => table'.currentPage = table.currentPage
       /\ (\E size \in PageSizes : ChangePageSize(size)) => table'.currentPage = 1
       /\ (\E length \in 0..MaxItems : RenderFiltered(length))
            => table'.currentPage = 1]_vars

\* the table shows the last of its three pages, sorted by amount
C27_Witness ==
    /\ table.rendered /\ table.currentPage = 3 /\ table.length = 25
    /\ table.pageSize = 10 /\ table.sortColumn = "amount"

\* C28: for every category that occurs in the record set, which the category
\* select offers as an option, filtering by it alone returns exactly the
\* records of that category, in their original order.
C28_OfferedCategoryFilters ==
    (/\ report.fn = "applyFilters"
     /\ criteria = [defaultFilters EXCEPT !.category = criteria.category]
     /\ criteria.category \in getUniqueCategories(records))
    => report.value = SelectSeq(records, LAMBDA t : t.category = criteria.category)

RECURSIVE sumOfField(_, _)
\* the sum of a field (income, expenses) over the month entries
sumOfField(entries, field) ==
    IF entries = <<>> THEN 0
    ELSE Head(entries)[field] + sumOfField(Tail(entries), field)

\* the positions of the records of a type dated in the month of an entry
recordsOfMonth(month, type) ==
    {k \in 1..Len(records) : /\ paddedKey(yearMonth(records[k].date)) = month
                              /\ records[k].type = type}

\* C29: for a list of normalized records the month entries partition the
\* totals: their incomes sum to calculateTotalIncome, their expenses to
\* calculateTotalExpenses, and every record is counted in exactly one entry,
\* that of its month.
C29_MonthsPartitionTotals ==
    (report.fn = "calculateByMonth" /\ normalized(records))
    => LET entries == report.value
       IN /\ sumOfField(entries, "income") = calculateTotalIncome(records)
          /\ sumOfField(entries, "expenses") = calculateTotalExpenses(records)
          /\ \A k \in 1..Len(records) :
                Cardinality({e \in 1..Len(entries) :
                    entries[e].month = paddedKey(yearMonth(records[k].date))}) = 1
          /\ \A e \in 1..Len(entries) :
                /\ entries[e].income
                   = amountsAt(records, recordsOfMonth(entries[e].month, <<"I","n","c","o","m","e">>))
                /\ entries[e].expenses
                   = amountsAt(records, recordsOfMonth(entries[e].month, <<"E","x","p","e","n","s","e">>))

\* C29 witness: three normalized records of two months, one month with an
\* income and an expense
C29_Witness ==
    /\ report.fn = "calculateByMonth" /\ normalized(records)
    /\ Len(records) = 3 /\ Len(report.value) = 2
    /\ \E e \in 1..2 : report.value[e].income > 0 /\ report.value[e].expenses > 0

\* C30: an export of an empty filtered list reports 'No data to export' and
\* hands over no report; any other export hands over the summary, category and
\* monthly data of state.filteredTransactions; both leave state as it is.
C30_ExportOfFiltered ==
    [][ClickExport
       => /\ state' = state
          /\ IF state.filteredTransactions = <<>>
             THEN /\ toast' = showToast("No data to export", "error")
                  /\ report' = report
             ELSE /\ report'.fn = "exportSummaryReport"
                  /\ report'.value.summary = getSummaryData(state.filteredTransactions)
                  /\ report'.value.categoryData
                     = getCategoryData(state.filteredTransactions)
                  /\ report'.value.monthlyData
                     = calculateByMonth(tz, state.filteredTransactions)]_vars

\* C30 witness: a report of one record exported from a dashboard whose
\* filters leave one of its two records
C30_Witness ==
    /\ report.fn = "exportSummaryReport"
    /\ Len(state.transactions) = 2 /\ Len(state.filteredTransactions) = 1
    /\ report.value.summary.transactionCount = 1

====
